---- MODULE Spec2Model ----
(***************************************************************************)
(* Model of the access-log analyzer                                        *)
(*   src/day04/python_day4_lecture/project/log_analyzer/log_analyzer.py    *)
(* LogParser (regular-expression grammars, timestamp normalisation, file   *)
(* ingestion) and LogAnalyzer (filters and aggregates).  Text is modelled  *)
(* as TLA+ strings; the two grammars are modelled as regular-expression    *)
(* programs run by a backtracking matcher that follows Python's re         *)
(* priorities (greedy longest-first, lazy shortest-first, alternatives     *)
(* left to right).                                                         *)
(***************************************************************************)
EXTENDS Integers, Sequences, FiniteSets, TLC

VARIABLES
    pc,           \* position of the run: "call"/"returned" (one parse), "parsing"/"loaded" (pipeline)
    tok,          \* the tokens the line under parse was written from
    log_line,     \* argument of parse_log_line
    ret,          \* outcome of parse_log_line
    file,         \* the lines of the log file, as read
    line_num,     \* enumerate(f, 1): number of the last line consumed
    log_entries,  \* the record list built by parse_log_file / LogAnalyzerCLI.log_entries
    stdout,       \* the "Could not parse line" warnings printed so far
    analyzer,     \* LogAnalyzer.log_entries of the current analyzer
    last_op,      \* the operation last called on the analyzer, with its arguments
    result        \* what that operation returned

vars == <<pc, tok, log_line, ret, file, line_num, log_entries, stdout,
          analyzer, last_op, result>>

-----------------------------------------------------------------------------
(* Characters and strings                                                  *)

Ch(s, i) == SubSeq(s, i, i)

Digits == {"0", "1", "2", "3", "4", "5", "6", "7", "8", "9"}

LowerStr == "abcdefghijklmnopqrstuvwxyz"
UpperStr == "ABCDEFGHIJKLMNOPQRSTUVWXYZ"

UpperLetters == {Ch(UpperStr, k) : k \in 1..26}
LowerLetters == {Ch(LowerStr, k) : k \in 1..26}

\* str.strip() with no argument removes these from both ends
Whitespace == {" ", "\t", "\n", "\r"}

ToUpperCh(c) ==
    IF c \in LowerLetters
    THEN Ch(UpperStr, CHOOSE k \in 1..26 : Ch(LowerStr, k) = c)
    ELSE c

ToLowerCh(c) ==
    IF c \in UpperLetters
    THEN Ch(LowerStr, CHOOSE k \in 1..26 : Ch(UpperStr, k) = c)
    ELSE c

RECURSIVE MapStr(_, _, _)
MapStr(s, i, upper) ==
    IF i > Len(s) THEN ""
    ELSE (IF upper THEN ToUpperCh(Ch(s, i)) ELSE ToLowerCh(Ch(s, i)))
         \o MapStr(s, i + 1, upper)

\* str.upper() / str.lower()
Upper(s) == MapStr(s, 1, TRUE)
Lower(s) == MapStr(s, 1, FALSE)

RECURSIVE LStripFrom(_, _)
LStripFrom(s, i) ==
    IF i <= Len(s) /\ Ch(s, i) \in Whitespace THEN LStripFrom(s, i + 1) ELSE i

RECURSIVE RStripFrom(_, _)
RStripFrom(s, j) ==
    IF j >= 1 /\ Ch(s, j) \in Whitespace THEN RStripFrom(s, j - 1) ELSE j

\* str.strip()
Strip(s) ==
    LET i == LStripFrom(s, 1)
        j == RStripFrom(s, Len(s))
    IN  IF i > j THEN "" ELSE SubSeq(s, i, j)

\* s[:n]
Prefix(s, n) == IF Len(s) <= n THEN s ELSE SubSeq(s, 1, n)

\* s.split(' ')[0]: the text before the first space
RECURSIVE FirstSpace(_, _)
FirstSpace(s, i) ==
    IF i > Len(s) \/ Ch(s, i) = " " THEN i ELSE FirstSpace(s, i + 1)

SplitFirst(s) == SubSeq(s, 1, FirstSpace(s, 1) - 1)

DigitVal(c) == CHOOSE d \in 0..9 : Ch("0123456789", d + 1) = c

\* int(s) for a string of decimal digits
RECURSIVE StrToInt(_)
StrToInt(s) ==
    IF Len(s) = 0 THEN 0
    ELSE 10 * StrToInt(SubSeq(s, 1, Len(s) - 1)) + DigitVal(Ch(s, Len(s)))

-----------------------------------------------------------------------------
(* Regular expressions: a pattern is a sequence of elements                *)

Lit(s)   == [op |-> "lit",  arg |-> s,  alts |-> <<>>]   \* literal text
ILit(s)  == [op |-> "ilit", arg |-> s,  alts |-> <<>>]   \* literal text under re.IGNORECASE
One(c)   == [op |-> "one",  arg |-> c,  alts |-> <<>>]   \* one character of a class
Plus(c)  == [op |-> "plus", arg |-> c,  alts |-> <<>>]   \* class+, greedy
Lazy     == [op |-> "lazy", arg |-> {}, alts |-> <<>>]   \* .*?
Mark     == [op |-> "mark", arg |-> {}, alts |-> <<>>]   \* a parenthesis of a capture group
Alt(a)   == [op |-> "alt",  arg |-> {}, alts |-> a]      \* a1|a2|..., each a pattern
Bol      == [op |-> "bol",  arg |-> {}, alts |-> <<>>]   \* ^
Eol      == [op |-> "eol",  arg |-> {}, alts |-> <<>>]   \* $

NoMatch == [ok |-> FALSE, marks |-> <<>>, end |-> 0]

\* length of the run of characters of class cls that starts at position i
RunLen(s, i, cls) ==
    LET stop == {k \in i..Len(s) : Ch(s, k) \notin cls}
    IN  IF stop = {} THEN Len(s) - i + 1
        ELSE (CHOOSE k \in stop : \A j \in stop : k <= j) - i

\* "." matches every character but the newline
DotRun(s, i) ==
    LET stop == {k \in i..Len(s) : Ch(s, k) = "\n"}
    IN  IF stop = {} THEN Len(s) - i + 1
        ELSE (CHOOSE k \in stop : \A j \in stop : k <= j) - i

\* a way of matching: the choices made on the way (key), the positions of
\* the group parentheses passed (marks), the position after the match (end)
Way(r, choice) == [r EXCEPT !.key = <<choice>> \o @]

\* every way in which pattern pat matches s from position i on.  The
\* backtracking matcher tries the choices of one element in a fixed order
\* (greedy: longest run first; lazy: shortest run first; alternation: left
\* to right) and returns the first way that succeeds, which is the way
\* with the least key.
RECURSIVE MatchAll(_, _, _)
MatchAll(pat, s, i) ==
    IF pat = <<>> THEN {[key |-> <<>>, marks |-> <<>>, end |-> i]}
    ELSE
    LET e    == Head(pat)
        rest == Tail(pat)
    IN  CASE e.op = "lit" ->
               IF i + Len(e.arg) - 1 <= Len(s)
                  /\ SubSeq(s, i, i + Len(e.arg) - 1) = e.arg
               THEN MatchAll(rest, s, i + Len(e.arg)) ELSE {}
          [] e.op = "ilit" ->
               IF i + Len(e.arg) - 1 <= Len(s)
                  /\ Lower(SubSeq(s, i, i + Len(e.arg) - 1)) = Lower(e.arg)
               THEN MatchAll(rest, s, i + Len(e.arg)) ELSE {}
          [] e.op = "one" ->
               IF i <= Len(s) /\ Ch(s, i) \in e.arg
               THEN MatchAll(rest, s, i + 1) ELSE {}
          [] e.op = "plus" ->
               LET max == RunLen(s, i, e.arg)
               IN  UNION {{Way(r, max - n) : r \in MatchAll(rest, s, i + n)}
                             : n \in 1..max}
          [] e.op = "lazy" ->
               UNION {{Way(r, n) : r \in MatchAll(rest, s, i + n)}
                         : n \in 0..DotRun(s, i)}
          [] e.op = "mark" ->
               {[r EXCEPT !.marks = <<i>> \o @] : r \in MatchAll(rest, s, i)}
          [] e.op = "alt" ->
               UNION {{Way(r, k) : r \in MatchAll(e.alts[k] \o rest, s, i)}
                         : k \in 1..Len(e.alts)}
          [] e.op = "bol" -> IF i = 1 THEN MatchAll(rest, s, i) ELSE {}
          [] e.op = "eol" -> IF i = Len(s) + 1 THEN MatchAll(rest, s, i) ELSE {}

\* key a is tried before key b
RECURSIVE Before(_, _)
Before(a, b) ==
    IF a = <<>> \/ b = <<>> THEN FALSE
    ELSE IF Head(a) # Head(b) THEN Head(a) < Head(b)
    ELSE Before(Tail(a), Tail(b))

\* the match the matcher reports: the first way, or no match
FirstWay(ways) ==
    IF ways = {} THEN NoMatch
    ELSE LET w == CHOOSE x \in ways : \A y \in ways : x = y \/ Before(x.key, y.key)
         IN  [ok |-> TRUE, marks |-> w.marks, end |-> w.end]

\* pattern.match(s): anchored at the start of s, not at its end
ReMatch(pat, s) == FirstWay(MatchAll(pat, s, 1))

\* pattern.search(s): the first position from which the pattern matches
ReSearch(pat, s) ==
    FirstWay(UNION {{Way(r, i) : r \in MatchAll(pat, s, i)} : i \in 1..(Len(s) + 1)})

\* match.groups()[g-1]
Group(s, m, g) == SubSeq(s, m.marks[2 * g - 1], m.marks[2 * g] - 1)

-----------------------------------------------------------------------------
(* LogParser: the two grammars                                             *)

\* (\d+\.\d+\.\d+\.\d+) - - \[(.*?)\] "([A-Z]+) (.*?) HTTP/\d\.\d" (\d+) (\d+)
COMMON_LOG_PATTERN ==
    << Mark, Plus(Digits), Lit("."), Plus(Digits), Lit("."), Plus(Digits),
             Lit("."), Plus(Digits), Mark,
       Lit(" - - ["), Mark, Lazy, Mark,
       Lit("] \""), Mark, Plus(UpperLetters), Mark,
       Lit(" "), Mark, Lazy, Mark,
       Lit(" HTTP/"), One(Digits), Lit("."), One(Digits), Lit("\" "),
       Mark, Plus(Digits), Mark, Lit(" "), Mark, Plus(Digits), Mark >>

\* ... the same, followed by  "(.*?)" "(.*?)"
COMBINED_LOG_PATTERN ==
    << Mark, Plus(Digits), Lit("."), Plus(Digits), Lit("."), Plus(Digits),
             Lit("."), Plus(Digits), Mark,
       Lit(" - - ["), Mark, Lazy, Mark,
       Lit("] \""), Mark, Plus(UpperLetters), Mark,
       Lit(" "), Mark, Lazy, Mark,
       Lit(" HTTP/"), One(Digits), Lit("."), One(Digits), Lit("\" "),
       Mark, Plus(Digits), Mark, Lit(" "), Mark, Plus(Digits), Mark,
       Lit(" \""), Mark, Lazy, Mark, Lit("\" \""), Mark, Lazy, Mark, Lit("\"") >>

-----------------------------------------------------------------------------
(* datetime                                                                *)

datetime(Y, m, d, H, M, S) ==
    [year |-> Y, month |-> m, day |-> d, hour |-> H, minute |-> M, second |-> S]

IsLeap(y) == (y % 4 = 0) /\ ((y % 100 # 0) \/ (y % 400 = 0))

DaysInMonth(y, m) ==
    IF m = 2 THEN (IF IsLeap(y) THEN 29 ELSE 28)
    ELSE IF m \in {4, 6, 9, 11} THEN 30 ELSE 31

\* the range checks of the datetime constructor
ValidDatetime(t) ==
    /\ t.year \in 1..9999
    /\ t.month \in 1..12
    /\ t.day \in 1..DaysInMonth(t.year, t.month)
    /\ t.hour \in 0..23
    /\ t.minute \in 0..59
    /\ t.second \in 0..59

DtSeq(t) == <<t.year, t.month, t.day, t.hour, t.minute, t.second>>

RECURSIVE LexLE(_, _)
LexLE(a, b) ==
    IF a = <<>> THEN TRUE
    ELSE IF Head(a) < Head(b) THEN TRUE
    ELSE IF Head(a) > Head(b) THEN FALSE
    ELSE LexLE(Tail(a), Tail(b))

\* a <= b on datetime objects
DtLE(a, b) == LexLE(DtSeq(a), DtSeq(b))

MonthAbbr == <<"jan", "feb", "mar", "apr", "may", "jun",
               "jul", "aug", "sep", "oct", "nov", "dec">>

\* the regular expressions strptime builds for the directives
RE_d == Alt(<< <<One({"3"}), One({"0", "1"})>>,
               <<One({"1", "2"}), One(Digits)>>,
               <<One({"0"}), One(Digits \ {"0"})>>,
               <<One(Digits \ {"0"})>>,
               <<One({" "}), One(Digits \ {"0"})>> >>)
RE_b == Alt([k \in 1..12 |-> <<ILit(MonthAbbr[k])>>])
RE_Y == Alt(<< <<One(Digits), One(Digits), One(Digits), One(Digits)>> >>)
RE_H == Alt(<< <<One({"2"}), One({"0", "1", "2", "3"})>>,
               <<One({"0", "1"}), One(Digits)>>,
               <<One(Digits)>> >>)
RE_M == Alt(<< <<One({"0", "1", "2", "3", "4", "5"}), One(Digits)>>,
               <<One(Digits)>> >>)
RE_S == Alt(<< <<One({"6"}), One({"0", "1"})>>,
               <<One({"0", "1", "2", "3", "4", "5"}), One(Digits)>>,
               <<One(Digits)>> >>)
RE_m == Alt(<< <<One({"1"}), One({"0", "1", "2"})>>,
               <<One({"0"}), One(Digits \ {"0"})>>,
               <<One(Digits \ {"0"})>> >>)

\* "%d/%b/%Y:%H:%M:%S"
LOG_TIME_FORMAT ==
    << Mark, RE_d, Mark, Lit("/"), Mark, RE_b, Mark, Lit("/"), Mark, RE_Y, Mark,
       Lit(":"), Mark, RE_H, Mark, Lit(":"), Mark, RE_M, Mark, Lit(":"),
       Mark, RE_S, Mark >>

None == <<>>
Some(x) == <<x>>

\* how a call ends: it returns a value or raises an exception with a
\* message; out is what it printed
Return(v)     == [exc |-> "none", value |-> v, msg |-> "", out |-> <<>>]
Raise(e, msg) == [exc |-> e, value |-> None, msg |-> msg, out |-> <<>>]

\* datetime.datetime.strptime(s, "%d/%b/%Y:%H:%M:%S")
strptime_log(s) ==
    LET m == ReMatch(LOG_TIME_FORMAT, s)
    IN  IF ~m.ok
        THEN Raise("ValueError", "time data does not match format")
        ELSE IF m.end # Len(s) + 1
        THEN Raise("ValueError", "unconverted data remains")
        ELSE
        LET b == Lower(Group(s, m, 2))
            t == datetime(StrToInt(Group(s, m, 3)),
                          CHOOSE k \in 1..12 : MonthAbbr[k] = b,
                          StrToInt(Strip(Group(s, m, 1))),
                          StrToInt(Group(s, m, 4)),
                          StrToInt(Group(s, m, 5)),
                          StrToInt(Group(s, m, 6)))
        IN  IF ValidDatetime(t) THEN Return(Some(t))
            ELSE Raise("ValueError", "value out of range")

\* parse_timestamp falling back to a default date instead of raising
parse_timestamp_default(timestamp_str) ==
    LET r == strptime_log(SplitFirst(timestamp_str))
    IN  IF r.exc = "ValueError"
        THEN Return(Some(datetime(1970, 1, 1, 0, 0, 0)))
        ELSE r

\* parse_timestamp applying the offset +-HHMM to the hour instead of
\* dropping it
parse_timestamp_adjusted(timestamp_str) ==
    LET first == SplitFirst(timestamp_str)
        r     == strptime_log(first)
        off   == SubSeq(timestamp_str, Len(first) + 2, Len(timestamp_str))
    IN  IF r.exc = "ValueError"
        THEN Raise("ValueError", "Invalid timestamp format: " \o first)
        ELSE IF Len(off) = 5 /\ Ch(off, 1) \in {"+", "-"}
        THEN LET hh == StrToInt(SubSeq(off, 2, 3))
             IN  Return(Some([r.value[1] EXCEPT
                                !.hour = IF Ch(off, 1) = "+" THEN (@ + 24 - hh) % 24
                                                             ELSE (@ + hh) % 24]))
        ELSE r

\* LogParser.parse_timestamp: drop the offset, parse the wall-clock part;
\* a ValueError is raised again as ValueError naming the shortened token
parse_timestamp(timestamp_str) ==
    LET first == SplitFirst(timestamp_str)
        r     == strptime_log(first)
    IN  IF r.exc = "ValueError"
        THEN Raise("ValueError", "Invalid timestamp format: " \o first)
        ELSE r

-----------------------------------------------------------------------------
(* LogEntry and LogParser.parse_log_line                                   *)

LogEntry(raw_log, timestamp, ip_address, method, path, status_code, response_size, user_agent, referer) ==
    [raw_log |-> raw_log, timestamp |-> timestamp, ip_address |-> ip_address,
     method |-> method, path |-> path, status_code |-> status_code,
     response_size |-> response_size, user_agent |-> user_agent,
     referer |-> referer]

\* BuildEntry with the placeholder "-" kept as text
BuildEntryKeepDash(log_line_, m, combined) ==
    LET ts == parse_timestamp(Group(log_line_, m, 2))
    IN  IF ts.exc # "none" THEN ts
        ELSE Return(Some(LogEntry(log_line_, ts.value[1],
                         Group(log_line_, m, 1),
                         Group(log_line_, m, 3),
                         Group(log_line_, m, 4),
                         StrToInt(Group(log_line_, m, 5)),
                         StrToInt(Group(log_line_, m, 6)),
                         IF combined THEN Some(Group(log_line_, m, 8)) ELSE None,
                         IF combined THEN Some(Group(log_line_, m, 7)) ELSE None)))

\* BuildEntry taking the referer for the user agent and the reverse
BuildEntrySwapped(log_line_, m, combined) ==
    LET ts == parse_timestamp(Group(log_line_, m, 2))
    IN  IF ts.exc # "none" THEN ts
        ELSE Return(Some(LogEntry(log_line_, ts.value[1],
                         Group(log_line_, m, 1),
                         Group(log_line_, m, 3),
                         Group(log_line_, m, 4),
                         StrToInt(Group(log_line_, m, 5)),
                         StrToInt(Group(log_line_, m, 6)),
                         IF combined /\ Group(log_line_, m, 7) # "-"
                            THEN Some(Group(log_line_, m, 7)) ELSE None,
                         IF combined /\ Group(log_line_, m, 8) # "-"
                            THEN Some(Group(log_line_, m, 8)) ELSE None)))

\* the body of a try block of parse_log_line: the value built, or the
\* exception that leaves the block
BuildEntry(log_line_, m, combined) ==
    LET ts == parse_timestamp(Group(log_line_, m, 2))
    IN  IF ts.exc # "none" THEN ts
        ELSE Return(Some(LogEntry(log_line_, ts.value[1],
                         Group(log_line_, m, 1),
                         Group(log_line_, m, 3),
                         Group(log_line_, m, 4),
                         StrToInt(Group(log_line_, m, 5)),
                         StrToInt(Group(log_line_, m, 6)),
                         IF combined /\ Group(log_line_, m, 8) # "-"
                            THEN Some(Group(log_line_, m, 8)) ELSE None,
                         IF combined /\ Group(log_line_, m, 7) # "-"
                            THEN Some(Group(log_line_, m, 7)) ELSE None)))

\* a try block without its except clause
ExceptNothing(r) == r

\* except ValueError as e: print(f"Error parsing log line: {e}"); return None
ExceptValueError(r) ==
    IF r.exc = "ValueError"
    THEN [Return(None) EXCEPT !.out = <<"Error parsing log line: " \o r.msg>>]
    ELSE r

\* GrammarOf with the shorter pattern tried first
GrammarOfCommonFirst(log_line_) ==
    IF ReMatch(COMMON_LOG_PATTERN, log_line_).ok THEN "common"
    ELSE IF ReMatch(COMBINED_LOG_PATTERN, log_line_).ok THEN "combined"
    ELSE "none"

\* GrammarOf taking a grammar only when its match ends where the line ends
GrammarOfWholeLine(log_line_) ==
    IF ReMatch(COMBINED_LOG_PATTERN, log_line_).end = Len(log_line_) + 1 THEN "combined"
    ELSE IF ReMatch(COMMON_LOG_PATTERN, log_line_).end = Len(log_line_) + 1 THEN "common"
    ELSE "none"

\* which grammar parse_log_line uses for the line
GrammarOf(log_line_) ==
    IF ReMatch(COMBINED_LOG_PATTERN, log_line_).ok THEN "combined"
    ELSE IF ReMatch(COMMON_LOG_PATTERN, log_line_).ok THEN "common"
    ELSE "none"

\* LogParser.parse_log_line: returns Some(entry) or None
parse_log_line(log_line_) ==
    LET g == GrammarOf(log_line_)
    IN  IF g = "combined"
        THEN ExceptValueError(
                 BuildEntry(log_line_, ReMatch(COMBINED_LOG_PATTERN, log_line_), TRUE))
        ELSE IF g = "common"
        THEN ExceptValueError(
                 BuildEntry(log_line_, ReMatch(COMMON_LOG_PATTERN, log_line_), FALSE))
        ELSE Return(None)

-----------------------------------------------------------------------------
(* One call of parse_log_line on a line written from tokens                *)

Digit10 == "0123456789"

\* str(n) for n >= 0, as the f-string of a log writer formats a number
RECURSIVE IntToStr(_)
IntToStr(n) ==
    IF n < 10 THEN Ch(Digit10, n + 1)
    ELSE IntToStr(n \div 10) \o Ch(Digit10, (n % 10) + 1)

IpInputs == {"192.168.1.1", "10.0.0.300", "host.example"}

TsTok(t, k, v) == [tok |-> t, kind |-> k, val |-> v]

\* timestamp tokens: kind says how the token relates to DD/Mon/YYYY:HH:MM:SS +-HHMM
TsInputs ==
    { TsTok("19/Apr/2023:13:55:36 +0000", "ok", Some(datetime(2023, 4, 19, 13, 55, 36))),
      TsTok("29/Feb/2024:00:00:00 +0530", "ok", Some(datetime(2024, 2, 29, 0, 0, 0))),
      TsTok("19/Apr/2023:13:55:36", "nooffset", Some(datetime(2023, 4, 19, 13, 55, 36))),
      TsTok("5/Apr/2023:3:07:09 +0000", "width", Some(datetime(2023, 4, 5, 3, 7, 9))),
      TsTok("19/Xyz/2023:13:55:36 +0000", "badmonth", None),
      TsTok("ab/Apr/2023:13:55:36 +0000", "nonnumeric", None),
      TsTok("19/Apr/2023:1x:55:36 +0000", "nonnumeric", None),
      TsTok("31/Feb/2023:10:00:00 +0000", "range", None),
      TsTok("2023-04-19T13:55:36 +0000", "layout", None),
      TsTok("", "empty", None) }

MethodInputs == {"GET", "BREW", "get"}

PathInputs == {"/index.html", "/search?q=a b", "/"}

NumTok(t, v) == [tok |-> t, val |-> v]

\* status and size tokens: numbers as written by str(), and non-numbers
StatusInputs ==
    {NumTok(IntToStr(n), Some(n)) : n \in {200, 404}}
        \cup {NumTok("007", Some(7)), NumTok("abc", None)}

SizeInputs ==
    {NumTok(IntToStr(n), Some(n)) : n \in {0, 2326}}
        \cup {NumTok("-", None), NumTok("1k", None)}

TailTok(k, r, u, t) == [kind |-> k, referer |-> r, user_agent |-> u, text |-> t]

\* what follows the size: nothing, the two quoted fields, or other text
TailInputs ==
    { TailTok("none", "", "", ""),
      TailTok("quoted", "-", "-", ""),
      TailTok("quoted", "http://example.com/", "Mozilla/5.0 (X11)", ""),
      TailTok("quoted", "-", "curl/8", ""),
      TailTok("text", "", "", " \"http://example.com/\""),
      TailTok("text", "", "", " trailing") }

Tokens ==
    [ip : IpInputs, ts : TsInputs, method : MethodInputs, path : PathInputs,
     status : StatusInputs, size : SizeInputs, tail : TailInputs]

\* the line a server writes for the tokens
WriteLine(t) ==
    t.ip \o " - - [" \o t.ts.tok \o "] \"" \o t.method \o " " \o t.path
         \o " HTTP/1.1\" " \o t.status.tok \o " " \o t.size.tok
         \o (IF t.tail.kind = "quoted"
             THEN " \"" \o t.tail.referer \o "\" \"" \o t.tail.user_agent \o "\""
             ELSE t.tail.text)

NoOp == [op |-> "none", args |-> <<>>]

InitParse ==
    /\ pc = "call"
    /\ tok \in Tokens
    /\ log_line = WriteLine(tok)
    /\ ret = Return(None)
    /\ file = <<>>
    /\ line_num = 0
    /\ log_entries = <<>>
    /\ stdout = <<>>
    /\ analyzer = <<>>
    /\ last_op = NoOp
    /\ result = <<>>

\* the call LogParser.parse_log_line(log_line)
ParseLine ==
    /\ pc = "call"
    /\ ret' = parse_log_line(log_line)
    /\ pc' = "returned"
    /\ UNCHANGED <<tok, log_line, file, line_num, log_entries, stdout,
                   analyzer, last_op, result>>

NextParse == ParseLine

SpecParse == InitParse /\ [][NextParse]_vars

-----------------------------------------------------------------------------
(* LogParser.parse_log_file and LogAnalyzerCLI.load_log_file               *)

MaxLines == 3

FileName == "access.log"

LineBasic ==
    "192.168.1.1 - - [19/Apr/2023:13:55:36 +0000] \"GET /index.html HTTP/1.1\" 200 2326\n"
LineCombined ==
    "10.0.0.2 - - [20/Apr/2023:00:00:00 +0000] \"POST /admin/login.php HTTP/1.1\" 404 512 \"-\" \"Mozilla/5.0\"\n"
LineIndented ==
    "  192.168.1.1 - - [19/Apr/2023:13:55:36 +0530] \"GET /api/data HTTP/1.1\" 500 0 \"http://example.com/\" \"curl/8\" \n"
LineBadMonth ==
    "10.0.0.2 - - [19/Xyz/2023:13:55:36 +0000] \"GET /index.html HTTP/1.1\" 200 2326 \"-\" \"Mozilla/5.0\"\n"
LineBadDigits ==
    "10.0.0.2 - - [ab/Apr/2023:13:55:36 +0000] \"GET /index.html HTTP/1.1\" 200 2326\n"
LineGarbage == "# rotated\n"
LineBlank == "  \n"

\* the lines a log file is made of, as read (with their line ends)
FileLines ==
    {LineBasic, LineCombined, LineIndented, LineBadMonth, LineBadDigits,
     LineGarbage, LineBlank}

BoundedSeq(S, n) == UNION {[1..k -> S] : k \in 0..n}

Init ==
    /\ pc = "start"
    /\ file \in BoundedSeq(FileLines, MaxLines)
    /\ line_num = 0
    /\ log_entries = <<>>
    /\ stdout = <<>>
    /\ analyzer = <<>>
    /\ last_op = NoOp
    /\ result = Return(None)
    /\ tok = <<>>
    /\ log_line = ""
    /\ ret = Return(None)

\* load_log_file up to the call of parse_log_file, which opens the file
LoadStart ==
    /\ pc = "start"
    /\ stdout' = Append(stdout, "Loading log file: " \o FileName)
    /\ pc' = "parsing"
    /\ UNCHANGED <<tok, log_line, ret, file, line_num, log_entries, analyzer,
                   last_op, result>>

\* WarningFor counting the lines from 0
WarningForZeroBased(num, line) ==
    "Warning: Could not parse line " \o IntToStr(num - 1) \o ": "
        \o Prefix(line, 50) \o "..."

\* print(f"Warning: Could not parse line {line_num}: {line[:50]}...")
WarningFor(num, line) ==
    "Warning: Could not parse line " \o IntToStr(num) \o ": "
        \o Prefix(line, 50) \o "..."

\* AppendEntry putting the newest record first
AppendEntryFront(entries, entry) == <<entry>> \o entries

\* log_entries.append(log_entry)
AppendEntry(entries, entry) == Append(entries, entry)

\* one pass of the loop of parse_log_file over the next line of the file:
\* line = line.strip(); a blank line is skipped; otherwise
\* log_entry = parse_log_line(line) is appended or warned about
ReadLine ==
    /\ pc = "parsing"
    /\ line_num < Len(file)
    /\ line_num' = line_num + 1
    /\ log_line' = Strip(file[line_num'])
    /\ ret' = IF log_line' = "" THEN ret ELSE parse_log_line(log_line')
    /\ IF log_line' = ""
       THEN /\ UNCHANGED <<log_entries, stdout>>
            /\ pc' = pc
       ELSE IF ret'.exc # "none"
       THEN \* not an error of opening or reading the file: load_log_file
            \* reports it and exits
            /\ stdout' = stdout \o ret'.out
                           \o <<"Error loading log file: " \o ret'.msg>>
            /\ pc' = "exited"
            /\ UNCHANGED log_entries
       ELSE IF ret'.value # None
       THEN /\ log_entries' = AppendEntry(log_entries, ret'.value[1])
            /\ stdout' = stdout \o ret'.out
            /\ pc' = pc
       ELSE /\ stdout' = stdout \o ret'.out
                           \o <<WarningFor(line_num', log_line')>>
            /\ pc' = pc
            /\ UNCHANGED log_entries
    /\ UNCHANGED <<tok, file, analyzer, last_op, result>>

\* parse_log_file returns; load_log_file keeps the list and builds the analyzer
LoadFinish ==
    /\ pc = "parsing"
    /\ line_num = Len(file)
    /\ stdout' = Append(stdout, "Loaded " \o IntToStr(Len(log_entries)) \o " log entries")
    /\ analyzer' = log_entries
    /\ pc' = "loaded"
    /\ UNCHANGED <<tok, log_line, ret, file, line_num, log_entries, last_op, result>>

-----------------------------------------------------------------------------
(* LogAnalyzer: filters                                                    *)

\* a list comprehension [entry for entry in entries if test] is SelectSeq

filter_by_date_range(entries, start_date, end_date) ==
    Return(SelectSeq(entries,
        LAMBDA entry : DtLE(start_date, entry.timestamp)
                          /\ DtLE(entry.timestamp, end_date)))

filter_by_ip(entries, ip_address) ==
    Return(SelectSeq(entries, LAMBDA entry : entry.ip_address = ip_address))

\* filter_by_method comparing with the argument as given
filter_by_method_exact(entries, method) ==
    Return(SelectSeq(entries, LAMBDA entry : entry.method = method))

filter_by_method(entries, method) ==
    Return(SelectSeq(entries, LAMBDA entry : entry.method = Upper(method)))

filter_by_status_code(entries, status_code) ==
    Return(SelectSeq(entries, LAMBDA entry : entry.status_code = status_code))

\* filter_by_status_code_range with the upper bound excluded
filter_by_status_code_range_open(entries, start_code, end_code) ==
    Return(SelectSeq(entries,
        LAMBDA entry : start_code <= entry.status_code
                          /\ entry.status_code < end_code))

filter_by_status_code_range(entries, start_code, end_code) ==
    Return(SelectSeq(entries,
        LAMBDA entry : start_code <= entry.status_code
                          /\ entry.status_code <= end_code))

\* the path patterns a caller passes
PathPatternInputs == {"admin", "^/api", "\\.php$", "["}

\* re.compile(pattern) for the patterns above
re_compile(pattern) ==
    CASE pattern = "admin"   -> Return(<<Lit("admin")>>)
      [] pattern = "^/api"   -> Return(<<Bol, Lit("/api")>>)
      [] pattern = "\\.php$" -> Return(<<Lit(".php"), Eol>>)
      [] pattern = "["       -> Raise("re.error", "unterminated character set at position 0")

filter_by_path_pattern(entries, pattern) ==
    LET regex == re_compile(pattern)
    IN  IF regex.exc # "none" THEN regex
        ELSE Return(SelectSeq(entries,
                 LAMBDA entry : ReSearch(regex.value, entry.path).ok))

\* the keys a Counter(... for entry in self.log_entries) is fed, in store order
IpKeys(entries)     == [k \in DOMAIN entries |-> entries[k].ip_address]
PathKeys(entries)   == [k \in DOMAIN entries |-> entries[k].path]
StatusKeys(entries) == [k \in DOMAIN entries |-> entries[k].status_code]
MethodKeys(entries) == [k \in DOMAIN entries |-> entries[k].method]
HourKeys(entries)   == [k \in DOMAIN entries |-> entries[k].timestamp.hour]

\* str(n).zfill(w), the "%04d" and "%02d" of isoformat()
RECURSIVE ZeroPad(_, _)
ZeroPad(str, w) == IF Len(str) >= w THEN str ELSE ZeroPad("0" \o str, w)

\* date.isoformat()
date_isoformat(t) ==
    ZeroPad(IntToStr(t.year), 4) \o "-" \o ZeroPad(IntToStr(t.month), 2)
        \o "-" \o ZeroPad(IntToStr(t.day), 2)

\* datetime.isoformat() of a naive datetime without microseconds
datetime_isoformat(t) ==
    date_isoformat(t) \o "T" \o ZeroPad(IntToStr(t.hour), 2)
        \o ":" \o ZeroPad(IntToStr(t.minute), 2)
        \o ":" \o ZeroPad(IntToStr(t.second), 2)

DayKeys(entries) == [k \in DOMAIN entries |-> date_isoformat(entries[k].timestamp)]

\* Counter counting, for each key, only the run of equal keys that starts
\* where the key first appears
Counter_of_runs(keys) ==
    LET first == SelectSeq([k \in DOMAIN keys |-> k],
                           LAMBDA k : \A j \in 1..(k - 1) : keys[j] # keys[k])
        run(k) == CHOOSE n \in 1..Len(keys) :
                     /\ \A j \in k..(k + n - 1) : keys[j] = keys[k]
                     /\ (k + n > Len(keys) \/ keys[k + n] # keys[k])
    IN  [i \in DOMAIN first |-> <<keys[first[i]], run(first[i])>>]

\* Counter(keys): a dict, here the sequence of its (key, count) items in
\* insertion order, which is the order of first appearance of the keys
Counter(keys) ==
    LET first == SelectSeq([k \in DOMAIN keys |-> k],
                           LAMBDA k : \A j \in 1..(k - 1) : keys[j] # keys[k])
    IN  [i \in DOMAIN first |->
            <<keys[first[i]],
              Cardinality({k \in DOMAIN keys : keys[k] = keys[first[i]]})>>]

\* most_common without the sort: the items in the order of first appearance
most_common_unsorted(counter, n) ==
    IF n <= 0 THEN <<>>
    ELSE IF n >= Len(counter) THEN counter
    ELSE SubSeq(counter, 1, n)

\* most_common taking one item more than asked for
most_common_one_more(counter, n) ==
    LET rank(i) == 1 + Cardinality({j \in DOMAIN counter :
                        \/ counter[j][2] > counter[i][2]
                        \/ (counter[j][2] = counter[i][2] /\ j < i)})
        sorted_ == [r \in DOMAIN counter |->
                      counter[CHOOSE i \in DOMAIN counter : rank(i) = r]]
    IN  IF n + 1 >= Len(counter) THEN sorted_ ELSE SubSeq(sorted_, 1, n + 1)

\* Counter.most_common(n): heapq.nlargest(n, items, key=count), which is
\* sorted(items, key=count, reverse=True)[:n]: stable, and empty for n <= 0
most_common(counter, n) ==
    LET rank(i) == 1 + Cardinality({j \in DOMAIN counter :
                        \/ counter[j][2] > counter[i][2]
                        \/ (counter[j][2] = counter[i][2] /\ j < i)})
        sorted == [r \in DOMAIN counter |->
                      counter[CHOOSE i \in DOMAIN counter : rank(i) = r]]
    IN  IF n <= 0 THEN <<>>
        ELSE IF n >= Len(counter) THEN sorted
        ELSE SubSeq(sorted, 1, n)

get_top_ips(entries, limit) == Return(most_common(Counter(IpKeys(entries)), limit))

get_top_paths(entries, limit) == Return(most_common(Counter(PathKeys(entries)), limit))

get_status_code_distribution(entries) == Return(Counter(StatusKeys(entries)))

get_method_distribution(entries) == Return(Counter(MethodKeys(entries)))

\* get_hourly_distribution with the hours of the data only
get_hourly_distribution_sparse(entries) == Return(Counter(HourKeys(entries)))

\* {hour: hour_counter.get(hour, 0) for hour in range(24)}
get_hourly_distribution(entries) ==
    Return([i \in 1..24 |->
               <<i - 1,
                 Cardinality({k \in DOMAIN entries : HourKeys(entries)[k] = i - 1})>>])

get_daily_distribution(entries) == Return(Counter(DayKeys(entries)))

RECURSIVE SumSizes(_)
SumSizes(entries) ==
    IF entries = <<>> THEN 0
    ELSE Head(entries).response_size + SumSizes(Tail(entries))

\* sum(entry.response_size for entry in self.log_entries)
get_total_bandwidth(entries) == Return(SumSizes(entries))

RECURSIVE GCD(_, _)
GCD(a, b) == IF b = 0 THEN a ELSE GCD(b, a % b)

\* a / b of Python (true division), as the exact quotient in lowest terms;
\* the rounding to a binary float is not modelled
TrueDiv(a, b) ==
    LET g == GCD(a, b) IN [num |-> a \div g, den |-> b \div g]

\* get_average_response_size without its guard for the empty list
get_average_response_size_unguarded(entries) ==
    IF entries = <<>> THEN Raise("ZeroDivisionError", "division by zero")
    ELSE Return(TrueDiv(get_total_bandwidth(entries).value, Len(entries)))

get_average_response_size(entries) ==
    IF entries = <<>> THEN Return(0)
    ELSE Return(TrueDiv(get_total_bandwidth(entries).value, Len(entries)))

\* \s of a str pattern, over the characters a string of the model can hold
ReSpace == {" ", "\t", "\n", "\r", "\f"}

\* re.compile(r'(\'|\"|\s+or\s+|\s+and\s+|\s+union\s+|select\s+|drop\s+|--)',
\*            re.IGNORECASE)
sql_injection_pattern ==
    <<Mark,
      Alt(<< <<Lit("'")>>,
             <<Lit("\"")>>,
             <<Plus(ReSpace), ILit("or"), Plus(ReSpace)>>,
             <<Plus(ReSpace), ILit("and"), Plus(ReSpace)>>,
             <<Plus(ReSpace), ILit("union"), Plus(ReSpace)>>,
             <<ILit("select"), Plus(ReSpace)>>,
             <<ILit("drop"), Plus(ReSpace)>>,
             <<Lit("--")>> >>),
      Mark>>

\* the traversal pattern with the forward slash only
path_traversal_pattern_slash_only == <<Mark, Alt(<< <<Lit("../")>> >>), Mark>>

\* re.compile(r'(\.\./|\.\.\\)')
path_traversal_pattern ==
    <<Mark, Alt(<< <<Lit("../")>>, <<Lit("..\\")>> >>), Mark>>

\* if count > 10:  # Threshold for suspicious activity
Threshold404 == 10

RECURSIVE Flatten(_)
Flatten(seqs) == IF seqs = <<>> THEN <<>> ELSE Head(seqs) \o Flatten(Tail(seqs))

Is404(entry) == entry.status_code = 404

\* excessive_404s keeping, of each ip over the threshold, only the 404
\* entries after the first Threshold404 of them
excessive_404s_excess_only(entries) ==
    LET ip_404_counts == Counter(IpKeys(SelectSeq(entries, Is404)))
        over == SelectSeq(ip_404_counts, LAMBDA item : item[2] > Threshold404)
        Of(ip) == SelectSeq(entries,
                            LAMBDA entry : entry.ip_address = ip
                                           /\ entry.status_code = 404)
    IN  Flatten([i \in DOMAIN over |->
                    SubSeq(Of(over[i][1]), Threshold404 + 1, over[i][2])])

\* the entries extended into suspicious_entries['excessive_404s']: for every
\* ip of ip_404_counts, in the order of the dict, whose count is over the
\* threshold, the 404 entries of that ip
excessive_404s(entries) ==
    LET ip_404_counts == Counter(IpKeys(SelectSeq(entries, Is404)))
        over == SelectSeq(ip_404_counts, LAMBDA item : item[2] > Threshold404)
    IN  Flatten([i \in DOMAIN over |->
                    SelectSeq(entries,
                              LAMBDA entry : entry.ip_address = over[i][1]
                                             /\ entry.status_code = 404)])

\* detect_potential_attacks returning a dict that holds the three attack
\* types from the start, each with the list of its entries, empty or not
detect_potential_attacks_all_keys(entries) ==
    LET sql == SelectSeq(entries,
                   LAMBDA entry : ReSearch(sql_injection_pattern, entry.path).ok)
        trav == SelectSeq(entries,
                   LAMBDA entry : ReSearch(path_traversal_pattern, entry.path).ok)
        exc == excessive_404s(entries)
    IN  Return(<< <<"sql_injection", sql>>, <<"path_traversal", trav>>,
                  <<"excessive_404s", exc>> >>)

\* the defaultdict returned, as the sequence of its (attack type, entries)
\* items in insertion order: a key exists once something was appended to it
detect_potential_attacks(entries) ==
    LET sql == SelectSeq(entries,
                   LAMBDA entry : ReSearch(sql_injection_pattern, entry.path).ok)
        trav == SelectSeq(entries,
                   LAMBDA entry : ReSearch(path_traversal_pattern, entry.path).ok)
        exc == excessive_404s(entries)
    IN  Return((IF sql = <<>> THEN <<>> ELSE << <<"sql_injection", sql>> >>)
               \o (IF trav = <<>> THEN <<>> ELSE << <<"path_traversal", trav>> >>)
               \o (IF exc = <<>> THEN <<>> ELSE << <<"excessive_404s", exc>> >>))

\* date.toordinal()
RECURSIVE DaysBeforeMonth(_, _)
DaysBeforeMonth(y, m) ==
    IF m = 1 THEN 0 ELSE DaysBeforeMonth(y, m - 1) + DaysInMonth(y, m - 1)

toordinal(t) ==
    LET y == t.year - 1
    IN  y * 365 + (y \div 4) - (y \div 100) + (y \div 400)
            + DaysBeforeMonth(t.year, t.month) + t.day

\* end - start of two naive datetimes: a normalised timedelta
timedelta_between(end, start) ==
    LET secs == (toordinal(end) - toordinal(start)) * 86400
                   + (end.hour - start.hour) * 3600
                   + (end.minute - start.minute) * 60
                   + (end.second - start.second)
    IN  [days |-> secs \div 86400, seconds |-> secs % 86400]

\* min(entry.timestamp ...) and max(entry.timestamp ...) of a non-empty store
MinTimestamp(entries) ==
    entries[CHOOSE k \in DOMAIN entries :
                \A j \in DOMAIN entries : DtLE(entries[k].timestamp, entries[j].timestamp)].timestamp

MaxTimestamp(entries) ==
    entries[CHOOSE k \in DOMAIN entries :
                \A j \in DOMAIN entries : DtLE(entries[j].timestamp, entries[k].timestamp)].timestamp

generate_summary_report(entries) ==
    IF entries = <<>> THEN Return([error |-> "No log entries to analyze"])
    ELSE
      LET start_date == MinTimestamp(entries)
          end_date == MaxTimestamp(entries)
          time_span == timedelta_between(end_date, start_date)
          attacks == detect_potential_attacks(entries).value
      IN  Return([total_requests |-> Len(entries),
                  date_range |->
                      [start |-> datetime_isoformat(start_date),
                       end |-> datetime_isoformat(end_date),
                       span_days |-> TrueDiv(time_span.days * 86400 + time_span.seconds,
                                             86400)],
                  top_ips |-> get_top_ips(entries, 5).value,
                  top_paths |-> get_top_paths(entries, 5).value,
                  status_codes |-> get_status_code_distribution(entries).value,
                  methods |-> get_method_distribution(entries).value,
                  total_bandwidth |-> get_total_bandwidth(entries).value,
                  average_response_size |-> get_average_response_size(entries).value,
                  potential_attacks |->
                      [i \in DOMAIN attacks |-> <<attacks[i][1], Len(attacks[i][2])>>]])

IpArgs == {"192.168.1.1", "10.0.0.2", "8.8.8.8"}
MethodArgs == {"get", "POST", "Put"}
StatusArgs == {200, 404, 500}
DateArgs ==
    {datetime(2023, 4, 19, 0, 0, 0), datetime(2023, 4, 19, 13, 55, 36),
     datetime(2023, 4, 20, 0, 0, 0)}

LimitArgs == {0, 1, 5}

\* a method that kept what it returns: self.log_entries = [entry for ...]
log_entries_kept(op, entries, r) ==
    IF r.exc = "none" /\ op = "filter_by_method" THEN r.value ELSE entries

\* self.log_entries after a method of LogAnalyzer has run: every method
\* reads the list through a comprehension, a generator or len(), builds a
\* new list, Counter or dict, and assigns neither the attribute nor a
\* field of an entry
log_entries_after(op, entries, r) == entries

\* analyzer.<op>(*args) on the loaded analyzer, r what the method returns
Call(op, args, r) ==
    /\ pc = "loaded"
    /\ last_op' = [op |-> op, args |-> args]
    /\ result' = r
    /\ analyzer' = log_entries_after(op, analyzer, r)
    /\ UNCHANGED <<pc, tok, log_line, ret, file, line_num, log_entries, stdout>>

FilterByDateRange ==
    \E a \in DateArgs, b \in DateArgs :
        Call("filter_by_date_range", <<a, b>>, filter_by_date_range(analyzer, a, b))

FilterByIp ==
    \E a \in IpArgs : Call("filter_by_ip", <<a>>, filter_by_ip(analyzer, a))

FilterByMethod ==
    \E a \in MethodArgs : Call("filter_by_method", <<a>>, filter_by_method(analyzer, a))

FilterByStatusCode ==
    \E a \in StatusArgs :
        Call("filter_by_status_code", <<a>>, filter_by_status_code(analyzer, a))

FilterByStatusCodeRange ==
    \E a \in StatusArgs, b \in StatusArgs :
        Call("filter_by_status_code_range", <<a, b>>,
             filter_by_status_code_range(analyzer, a, b))

FilterByPathPattern ==
    \E a \in PathPatternInputs :
        Call("filter_by_path_pattern", <<a>>, filter_by_path_pattern(analyzer, a))

GetTopIps ==
    \E n \in LimitArgs : Call("get_top_ips", <<n>>, get_top_ips(analyzer, n))

GetTopPaths ==
    \E n \in LimitArgs : Call("get_top_paths", <<n>>, get_top_paths(analyzer, n))

GetStatusCodeDistribution ==
    Call("get_status_code_distribution", <<>>, get_status_code_distribution(analyzer))

GetMethodDistribution ==
    Call("get_method_distribution", <<>>, get_method_distribution(analyzer))

GetHourlyDistribution ==
    Call("get_hourly_distribution", <<>>, get_hourly_distribution(analyzer))

GetDailyDistribution ==
    Call("get_daily_distribution", <<>>, get_daily_distribution(analyzer))

GetTotalBandwidth ==
    Call("get_total_bandwidth", <<>>, get_total_bandwidth(analyzer))

GetAverageResponseSize ==
    Call("get_average_response_size", <<>>, get_average_response_size(analyzer))

DetectPotentialAttacks ==
    Call("detect_potential_attacks", <<>>, detect_potential_attacks(analyzer))

GenerateSummaryReport ==
    Call("generate_summary_report", <<>>, generate_summary_report(analyzer))

Next ==
    \/ LoadStart
    \/ ReadLine
    \/ LoadFinish
    \/ FilterByDateRange
    \/ FilterByIp
    \/ FilterByMethod
    \/ FilterByStatusCode
    \/ FilterByStatusCodeRange
    \/ FilterByPathPattern
    \/ GetTopIps
    \/ GetTopPaths
    \/ GetStatusCodeDistribution
    \/ GetMethodDistribution
    \/ GetHourlyDistribution
    \/ GetDailyDistribution
    \/ GetTotalBandwidth
    \/ GetAverageResponseSize
    \/ DetectPotentialAttacks
    \/ GenerateSummaryReport

Spec == Init /\ [][Next]_vars

-----------------------------------------------------------------------------
(* Ingestion of requests with suspicious paths, then attack detection      *)

MaxAttackLines == 2

AttackPaths ==
    {"/index.html", "/search?q=1' OR '1'='1", "/q=1 UNION 2", "/q=1+union+select+1",
     "/a--b", "/../../etc/passwd", "/a/..\\b", "/drop table", "/say=\"hi\"",
     "/a/..b", "/b/../c' and 1"}

\* a line of the basic grammar requesting the path
RequestLine(path) ==
    "10.0.0.9 - - [19/Apr/2023:13:55:36 +0000] \"GET " \o path \o " HTTP/1.1\" 200 10\n"

InitAttack ==
    /\ pc = "start"
    /\ file \in BoundedSeq({RequestLine(path) : path \in AttackPaths}, MaxAttackLines)
    /\ line_num = 0
    /\ log_entries = <<>>
    /\ stdout = <<>>
    /\ analyzer = <<>>
    /\ last_op = NoOp
    /\ result = Return(None)
    /\ tok = <<>>
    /\ log_line = ""
    /\ ret = Return(None)

NextAttack ==
    \/ LoadStart
    \/ ReadLine
    \/ LoadFinish
    \/ DetectPotentialAttacks

SpecAttack == InitAttack /\ [][NextAttack]_vars

-----------------------------------------------------------------------------
(* Ingestion of bursts of 404 responses, then attack detection (SpecBurst) *)

\* the most 404 responses one client address receives in a file
MaxBurst == 11

\* how many 404 responses an address receives: none, or a number around the
\* threshold
BurstCounts == {0} \cup ((Threshold404 - 1)..MaxBurst)

BurstIpA == "10.0.0.1"
BurstIpB == "10.0.0.2"

\* the path of the k-th request of an address; the first request of the
\* second address also holds a quote and a parent directory
BurstPath(ip, k) ==
    IF ip = BurstIpB /\ k = 1 THEN "/../p1'" ELSE "/p" \o IntToStr(k)

\* a line of the basic grammar: the k-th request of the address, answered
\* with the status
BurstLine(ip, status, k) ==
    ip \o " - - [19/Apr/2023:13:55:36 +0000] \"GET " \o BurstPath(ip, k)
       \o " HTTP/1.1\" " \o IntToStr(status) \o " 10\n"

\* n requests of the address answered with 404
Burst(ip, n) == [k \in 1..n |-> BurstLine(ip, 404, k)]

\* the lines of a and of b taken in turn
RECURSIVE Interleave(_, _)
Interleave(a, b) ==
    IF a = <<>> THEN b ELSE <<Head(a)>> \o Interleave(b, Tail(a))

\* a file: requests of the first address answered with 200, then the 404
\* responses of both addresses, one address after the other or in turn
BurstFiles ==
    {[k \in 1..ok |-> BurstLine(BurstIpA, 200, MaxBurst + k)]
        \o (IF turns THEN Interleave(Burst(BurstIpA, na), Burst(BurstIpB, nb))
                     ELSE Burst(BurstIpA, na) \o Burst(BurstIpB, nb)) :
        <<ok, na, nb, turns>> \in (0..1) \X BurstCounts \X BurstCounts \X BOOLEAN}

InitBurst ==
    /\ pc = "start"
    /\ file \in BurstFiles
    /\ line_num = 0
    /\ log_entries = <<>>
    /\ stdout = <<>>
    /\ analyzer = <<>>
    /\ last_op = NoOp
    /\ result = Return(None)
    /\ tok = <<>>
    /\ log_line = ""
    /\ ret = Return(None)

NextBurst ==
    \/ LoadStart
    \/ ReadLine
    \/ LoadFinish
    \/ DetectPotentialAttacks

SpecBurst == InitBurst /\ [][NextBurst]_vars

-----------------------------------------------------------------------------
(* Ingestion of mixed requests, then the aggregates (SpecMerge)            *)

MaxMergeLines == 3

\* requests that differ in address, day, hour, method, status, size and
\* path, two of them with suspicious paths
MergeLines ==
    {LineBasic, LineCombined, RequestLine("/search?q=1' OR '1'='1"),
     RequestLine("/../../etc/passwd")}

\* short files of mixed requests, and two files where the 404 responses of
\* two addresses come in turn
MergeFiles ==
    BoundedSeq(MergeLines, MaxMergeLines)
        \cup {Interleave(Burst(BurstIpA, Threshold404 + 1), Burst(BurstIpB, n)) :
                 n \in {Threshold404, Threshold404 + 1}}

InitMerge ==
    /\ pc = "start"
    /\ file \in MergeFiles
    /\ line_num = 0
    /\ log_entries = <<>>
    /\ stdout = <<>>
    /\ analyzer = <<>>
    /\ last_op = NoOp
    /\ result = Return(None)
    /\ tok = <<>>
    /\ log_line = ""
    /\ ret = Return(None)

NextMerge ==
    \/ LoadStart
    \/ ReadLine
    \/ LoadFinish
    \/ GetTopIps
    \/ GetTopPaths
    \/ GetStatusCodeDistribution
    \/ GetMethodDistribution
    \/ GetHourlyDistribution
    \/ GetDailyDistribution
    \/ GetTotalBandwidth
    \/ GetAverageResponseSize
    \/ DetectPotentialAttacks
    \/ GenerateSummaryReport

SpecMerge == InitMerge /\ [][NextMerge]_vars

-----------------------------------------------------------------------------
(* LogAnalyzerCLI: apply_filters                                           *)

\* "%Y-%m-%d"
DATE_FORMAT ==
    << Mark, RE_Y, Mark, Lit("-"), Mark, RE_m, Mark, Lit("-"), Mark, RE_d, Mark >>

\* datetime.datetime.strptime(s, "%Y-%m-%d")
strptime_date(s) ==
    LET m == ReMatch(DATE_FORMAT, s)
    IN  IF ~m.ok
        THEN Raise("ValueError", "time data does not match format")
        ELSE IF m.end # Len(s) + 1
        THEN Raise("ValueError", "unconverted data remains")
        ELSE
        LET t == datetime(StrToInt(Group(s, m, 1)), StrToInt(Group(s, m, 2)),
                          StrToInt(Strip(Group(s, m, 3))), 0, 0, 0)
        IN  IF ValidDatetime(t) THEN Return(Some(t))
            ELSE Raise("ValueError", "value out of range")

\* plus_one_day adding nothing: the bound is the midnight that begins the
\* end date
plus_no_day(t) == Return(Some(t))

\* t + datetime.timedelta(days=1)
plus_one_day(t) ==
    LET n == IF t.day < DaysInMonth(t.year, t.month)
             THEN [t EXCEPT !.day = @ + 1]
             ELSE IF t.month < 12
             THEN [t EXCEPT !.day = 1, !.month = @ + 1]
             ELSE [t EXCEPT !.day = 1, !.month = 1, !.year = @ + 1]
    IN  IF n.year > 9999 THEN Raise("OverflowError", "date value out of range")
        ELSE Return(Some(n))

\* the Namespace of parse_args, as far as apply_filters reads it; an option
\* that was not given is None
Namespace(ip, method, status, path, start, end) ==
    [filter_ip |-> ip, filter_method |-> method, filter_status |-> status,
     filter_path |-> path, start_date |-> start, end_date |-> end]

\* "if args.x:" is false for None, for the empty string and for 0
Truthy(opt, zero) == opt # None /\ opt[1] # zero

\* filtered_entries = [...] followed by print(f"Filtered by ...: ... ({len(filtered_entries)} entries)")
Filtered(st, kept, what) ==
    [st EXCEPT !.entries = kept,
               !.out = Append(@, "Filtered by " \o what \o " ("
                                   \o IntToStr(Len(kept)) \o " entries)")]

\* an except clause that also empties filtered_entries
SkippedEmpty(st, message) ==
    [st EXCEPT !.entries = <<>>, !.out = Append(@, message)]

\* the except clause of a filter step: filtered_entries keeps its value
Skipped(st, message) == [st EXCEPT !.out = Append(@, message)]

\* apply_filters up to its last statement: the entries left, what was
\* printed, and the exception that no except clause of it catches
apply_filters(log_entries_, args) ==
    LET s0 == [entries |-> log_entries_, out |-> <<>>, exc |-> "none"]
        s1 == IF Truthy(args.filter_ip, "")
              THEN Filtered(s0, SelectSeq(s0.entries,
                                LAMBDA entry : entry.ip_address = args.filter_ip[1]),
                            "IP: " \o args.filter_ip[1])
              ELSE s0
        s2 == IF Truthy(args.filter_method, "")
              THEN Filtered(s1, SelectSeq(s1.entries,
                                LAMBDA entry : entry.method = Upper(args.filter_method[1])),
                            "method: " \o args.filter_method[1])
              ELSE s1
        s3 == IF Truthy(args.filter_status, 0)
              THEN Filtered(s2, SelectSeq(s2.entries,
                                LAMBDA entry : entry.status_code = args.filter_status[1]),
                            "status code: " \o IntToStr(args.filter_status[1]))
              ELSE s2
        regex == re_compile(args.filter_path[1])
        s4 == IF Truthy(args.filter_path, "")
              THEN IF regex.exc = "re.error"
                   THEN Skipped(s3, "Invalid regex pattern: " \o regex.msg)
                   ELSE Filtered(s3, SelectSeq(s3.entries,
                                     LAMBDA entry : ReSearch(regex.value, entry.path).ok),
                                 "path pattern: " \o args.filter_path[1])
              ELSE s3
        start_date == strptime_date(args.start_date[1])
        s5 == IF Truthy(args.start_date, "")
              THEN IF start_date.exc = "ValueError"
                   THEN Skipped(s4, "Invalid start date format: " \o args.start_date[1])
                   ELSE Filtered(s4, SelectSeq(s4.entries,
                                     LAMBDA entry : DtLE(start_date.value[1], entry.timestamp)),
                                 "start date: " \o args.start_date[1])
              ELSE s4
        parsed == strptime_date(args.end_date[1])
        end_date == plus_one_day(parsed.value[1])
        s6 == IF Truthy(args.end_date, "")
              THEN IF parsed.exc = "ValueError"
                   THEN Skipped(s5, "Invalid end date format: " \o args.end_date[1])
                   ELSE IF end_date.exc # "none"
                   THEN [s5 EXCEPT !.exc = end_date.exc]
                   ELSE Filtered(s5, SelectSeq(s5.entries,
                                     LAMBDA entry : DtLE(entry.timestamp, end_date.value[1])),
                                 "end date: " \o args.end_date[1])
              ELSE s5
    IN  s6

\* the command lines of the filter options
FilterArgs ==
    {Namespace(None, None, None, None, None, None),
     Namespace(Some("192.168.1.1"), None, None, None, None, None),
     Namespace(Some("8.8.8.8"), Some("get"), None, None, None, None),
     Namespace(None, Some("get"), Some(0), None, None, None),
     Namespace(None, None, Some(404), Some("admin"), None, None),
     Namespace(None, None, None, Some("["), None, Some("2023-04-19")),
     Namespace(None, None, None, Some("["), Some("2023-04-20"), None),
     Namespace(None, None, None, Some("\\.php$"), Some("2023-04-19"), Some("2023-04-19")),
     Namespace(None, None, None, None, Some("2023-04-20"), None),
     Namespace(None, None, None, None, None, Some("2023-04-19")),
     Namespace(None, None, None, None, Some("19/04/2023"), Some("2023-4-31")),
     Namespace(Some(""), None, None, None, None, Some("9999-12-31"))}

\* self.apply_filters(args): an exception leaves run() and ends the program
\* with a traceback; otherwise self.analyzer = LogAnalyzer(filtered_entries)
ApplyFilters ==
    /\ pc = "loaded"
    /\ \E args \in FilterArgs :
          /\ last_op' = [op |-> "apply_filters", args |-> args]
          /\ result' = apply_filters(log_entries, args)
    /\ stdout' = stdout \o result'.out
    /\ IF result'.exc # "none"
       THEN pc' = "crashed" /\ analyzer' = analyzer
       ELSE pc' = "filtered" /\ analyzer' = result'.entries
    /\ UNCHANGED <<tok, log_line, ret, file, line_num, log_entries>>

-----------------------------------------------------------------------------
(* LogAnalyzerCLI: the displays and the report                             *)

\* f"{num / den:.2f}" for num >= 0: two decimals, a tie rounded to even;
\* the quotient is exact, the rounding to a binary float is not modelled
Fixed2(num, den) ==
    LET q == (num \div den) * 100 + ((num % den) * 100) \div den
        r == ((num % den) * 100) % den
        v == IF 2 * r > den \/ (2 * r = den /\ q % 2 = 1) THEN q + 1 ELSE q
    IN  IntToStr(v \div 100) \o "." \o ZeroPad(IntToStr(v % 100), 2)

\* datetime.fromisoformat(s).strftime('%Y-%m-%d %H:%M:%S') for the text
\* isoformat() gives for a year of four digits
strftime_iso(s) == SubSeq(s, 1, 10) \o " " \o SubSeq(s, 12, 19)

\* for key, count in d.items(): print(f"  {key}: {count}")
ItemLines(items, keys_are_int) ==
    [i \in DOMAIN items |->
        "  " \o (IF keys_are_int THEN IntToStr(items[i][1]) ELSE items[i][1])
             \o ": " \o IntToStr(items[i][2])]

\* what a display returns: nothing, having printed out; or the exception
\* that leaves it, with what was printed before
Printed(out) == [Return(None) EXCEPT !.out = out]
RaisedAfter(out, e, msg) == [Raise(e, msg) EXCEPT !.out = out]

\* display_summary; "if not self.analyzer" is never true here: a LogAnalyzer
\* defines neither __bool__ nor __len__, so the object is truthy with an
\* empty list too
display_summary(entries) ==
    LET summary == generate_summary_report(entries).value
        head == <<"\n===== Log Analysis Summary =====">>
    IN  IF "total_requests" \notin DOMAIN summary
        THEN RaisedAfter(head, "KeyError", "'total_requests'")
        ELSE Printed(
            head
            \o <<"Total Requests: " \o IntToStr(summary.total_requests),
                 "Date Range: " \o strftime_iso(summary.date_range.start)
                     \o " to " \o strftime_iso(summary.date_range.end),
                 "Time Span: " \o Fixed2(summary.date_range.span_days.num,
                                         summary.date_range.span_days.den)
                     \o " days",
                 "\nHTTP Methods:">>
            \o ItemLines(summary.methods, FALSE)
            \o <<"\nStatus Codes:">>
            \o ItemLines(summary.status_codes, TRUE)
            \o <<"\nTotal Bandwidth: "
                     \o Fixed2(summary.total_bandwidth, 1024 * 1024) \o " MB",
                 "Average Response Size: "
                     \o Fixed2(summary.average_response_size.num,
                               summary.average_response_size.den * 1024) \o " KB">>
            \o (IF summary.potential_attacks # <<>>
                THEN <<"\nPotential Attacks Detected:">>
                         \o ItemLines(summary.potential_attacks, FALSE)
                ELSE <<>>)
            \o <<"===============================">>)

\* for value, count in top: print(f"{value}: {count} requests")
RequestLines(items) ==
    [i \in DOMAIN items |-> items[i][1] \o ": " \o IntToStr(items[i][2]) \o " requests"]

display_top_ips(entries, limit) ==
    LET top_ips == get_top_ips(entries, limit).value
    IN  Printed(<<"\n===== Top " \o IntToStr(Len(top_ips)) \o " IP Addresses =====">>
                \o RequestLines(top_ips))

display_top_paths(entries, limit) ==
    LET top_paths == get_top_paths(entries, limit).value
    IN  Printed(<<"\n===== Top " \o IntToStr(Len(top_paths)) \o " Requested Paths =====">>
                \o RequestLines(top_paths))

\* f"{n:5d}"
RECURSIVE SpacePad(_, _)
SpacePad(str, w) == IF Len(str) >= w THEN str ELSE SpacePad(" " \o str, w)

\* '#' * n
RECURSIVE Hashes(_)
Hashes(n) == IF n <= 0 THEN "" ELSE "#" \o Hashes(n - 1)

\* max(hourly_dist.values())
MaxCount(items) ==
    items[CHOOSE i \in DOMAIN items : \A j \in DOMAIN items : items[j][2] <= items[i][2]][2]

\* display_hourly_distribution; int((count / max_count) * 50) is taken as
\* the exact floor, which the float computation gives for max_count < 50
display_hourly_distribution(entries) ==
    LET hourly_dist == get_hourly_distribution(entries).value
        max_count == MaxCount(hourly_dist)
    IN  Printed(<<"\n===== Hourly Request Distribution =====">>
                \o [i \in 1..24 |->
                      ZeroPad(IntToStr(i - 1), 2) \o ":00 - "
                        \o ZeroPad(IntToStr(i - 1), 2) \o ":59: "
                        \o SpacePad(IntToStr(hourly_dist[i][2]), 5) \o " "
                        \o Hashes(IF max_count > 0
                                  THEN (hourly_dist[i][2] * 50) \div max_count
                                  ELSE 0)])

\* the printable ASCII characters in the order of their code points (the
\* backquote left out: a string of the model cannot hold it)
Ascii ==
    " !\"#$%&'()*+,-./0123456789:;<=>?@ABCDEFGHIJKLMNOPQRSTUVWXYZ[\\]^_abcdefghijklmnopqrstuvwxyz{|}~"

ord(c) == CHOOSE k \in 1..Len(Ascii) : Ch(Ascii, k) = c

\* a < b on str: by the code points, a proper prefix first
RECURSIVE StrLess(_, _)
StrLess(a, b) ==
    IF b = "" THEN FALSE
    ELSE IF a = "" THEN TRUE
    ELSE IF Ch(a, 1) # Ch(b, 1) THEN ord(Ch(a, 1)) < ord(Ch(b, 1))
    ELSE StrLess(SubSeq(a, 2, Len(a)), SubSeq(b, 2, Len(b)))

\* the items of a dict in the order they were inserted, unsorted
unsorted(items) == items

\* sorted(d.items()) for a dict with str keys: the keys differ, so the
\* order is the order of the keys
sorted(items) ==
    [r \in DOMAIN items |->
        items[CHOOSE i \in DOMAIN items :
                 Cardinality({j \in DOMAIN items : StrLess(items[j][1], items[i][1])})
                    = r - 1]]

display_daily_distribution(entries) ==
    LET daily_dist == get_daily_distribution(entries).value
    IN  Printed(<<"\n===== Daily Request Distribution =====">>
                \o RequestLines(sorted(daily_dist)))

\* LogEntry.__str__
entry_str(entry) ==
    strftime_iso(datetime_isoformat(entry.timestamp)) \o " - " \o entry.ip_address
        \o " - " \o entry.method \o " " \o entry.path \o " - "
        \o IntToStr(entry.status_code) \o " - " \o IntToStr(entry.response_size)
        \o " bytes"

\* attack_type.replace('_', ' ').title()
Title(attack_type) ==
    CASE attack_type = "sql_injection"  -> "Sql Injection"
      [] attack_type = "path_traversal" -> "Path Traversal"
      [] attack_type = "excessive_404s" -> "Excessive 404S"

\* seq[:n]
FirstN(seq, n) == IF Len(seq) <= n THEN seq ELSE SubSeq(seq, 1, n)

\* the lines display_potential_attacks prints for one attack type
AttackLines(attack_type, entries) ==
    <<"\n" \o Title(attack_type) \o " (" \o IntToStr(Len(entries)) \o " instances):">>
    \o [i \in DOMAIN FirstN(entries, 5) |->
           "  " \o IntToStr(i) \o ". " \o entry_str(entries[i])]
    \o (IF Len(entries) > 5
        THEN <<"  ... and " \o IntToStr(Len(entries) - 5) \o " more">>
        ELSE <<>>)

display_potential_attacks(entries) ==
    LET attacks == detect_potential_attacks(entries).value
    IN  IF attacks = <<>> THEN Printed(<<"\nNo potential attacks detected.">>)
        ELSE Printed(<<"\n===== Potential Attacks =====">>
                     \o Flatten([i \in DOMAIN attacks |->
                                    AttackLines(attacks[i][1], attacks[i][2])]))

\* LogEntry.to_dict
to_dict(entry) ==
    [timestamp |-> datetime_isoformat(entry.timestamp),
     ip_address |-> entry.ip_address, method |-> entry.method,
     path |-> entry.path, status_code |-> entry.status_code,
     response_size |-> entry.response_size, user_agent |-> entry.user_agent,
     referer |-> entry.referer]

\* a record with the fields of r and those of extra
Updated(r, extra) ==
    [k \in DOMAIN r \cup DOMAIN extra |-> IF k \in DOMAIN extra THEN extra[k] ELSE r[k]]

\* save_report: the document given to json.dump is returned as value (json
\* writes the int keys of hourly_distribution as text); can_write is whether
\* open(filename, 'w') succeeds; "except Exception" lets nothing out
save_report(entries, filename, can_write) ==
    LET summary == generate_summary_report(entries).value
        hourly == get_hourly_distribution(entries).value
        attacks == detect_potential_attacks(entries).value
        document ==
            Updated(summary,
                [top_ips_full |-> get_top_ips(entries, 20).value,
                 top_paths_full |-> get_top_paths(entries, 20).value,
                 hourly_distribution |->
                     [i \in DOMAIN hourly |-> <<IntToStr(hourly[i][1]), hourly[i][2]>>],
                 daily_distribution |-> get_daily_distribution(entries).value,
                 potential_attacks_details |->
                     [i \in DOMAIN attacks |->
                         <<attacks[i][1],
                           [k \in DOMAIN FirstN(attacks[i][2], 10) |->
                               to_dict(attacks[i][2][k])]>>]])
    IN  IF can_write
        THEN [Return(document) EXCEPT !.out = <<"\nReport saved to " \o filename>>]
        ELSE [Return(None) EXCEPT
                 !.out = <<"Error saving report: [Errno 13] Permission denied: '"
                              \o filename \o "'">>]

-----------------------------------------------------------------------------
(* LogAnalyzerCLI.run: one run of the program over a log file              *)

MaxRunLines == 2

\* --top-ips and --top-paths (default 10)
TopArgs == {1, 10}

\* --output
OutputArgs == {None, Some("report.json")}

InitRun ==
    /\ pc = "start"
    /\ file \in BoundedSeq(FileLines, MaxRunLines)
    /\ line_num = 0
    /\ log_entries = <<>>
    /\ stdout = <<>>
    /\ analyzer = <<>>
    /\ last_op = NoOp
    /\ result = Return(None)
    /\ tok = <<>>
    /\ log_line = ""
    /\ ret = Return(None)

\* a statement of run() that calls self.<op>(*args), r what the call gives:
\* what it printed goes to the terminal, and an exception it lets out ends
\* the program with a traceback
RunStep(from, to, op, args, r) ==
    /\ pc = from
    /\ last_op' = [op |-> op, args |-> args]
    /\ result' = r
    /\ stdout' = stdout \o result'.out
    /\ pc' = IF result'.exc # "none" THEN "crashed" ELSE to
    /\ UNCHANGED <<tok, log_line, ret, file, line_num, log_entries, analyzer>>

\* an "if args.show_...:" or "if args.output:" that is false
RunSkip(from, to) ==
    /\ pc = from
    /\ pc' = to
    /\ UNCHANGED <<tok, log_line, ret, file, line_num, log_entries, analyzer,
                   stdout, last_op, result>>

DisplaySummary ==
    RunStep("filtered", "summary", "display_summary", <<>>, display_summary(analyzer))

DisplayTopIps ==
    \E n \in TopArgs :
        RunStep("summary", "top_ips", "display_top_ips", <<n>>,
                display_top_ips(analyzer, n))

DisplayTopPaths ==
    \E n \in TopArgs :
        RunStep("top_ips", "top_paths", "display_top_paths", <<n>>,
                display_top_paths(analyzer, n))

DisplayHourlyDistribution ==
    \/ RunSkip("top_paths", "hourly")
    \/ RunStep("top_paths", "hourly", "display_hourly_distribution", <<>>,
               display_hourly_distribution(analyzer))

DisplayDailyDistribution ==
    \/ RunSkip("hourly", "daily")
    \/ RunStep("hourly", "daily", "display_daily_distribution", <<>>,
               display_daily_distribution(analyzer))

DisplayPotentialAttacks ==
    \/ RunSkip("daily", "attacks")
    \/ RunStep("daily", "attacks", "display_potential_attacks", <<>>,
               display_potential_attacks(analyzer))

SaveReport ==
    \E output \in OutputArgs :
        IF Truthy(output, "")
        THEN \E can_write \in BOOLEAN :
                RunStep("attacks", "done", "save_report", <<output[1]>>,
                        save_report(analyzer, output[1], can_write))
        ELSE RunSkip("attacks", "done")

NextRun ==
    \/ LoadStart
    \/ ReadLine
    \/ LoadFinish
    \/ ApplyFilters
    \/ DisplaySummary
    \/ DisplayTopIps
    \/ DisplayTopPaths
    \/ DisplayHourlyDistribution
    \/ DisplayDailyDistribution
    \/ DisplayPotentialAttacks
    \/ SaveReport

SpecRun == InitRun /\ [][NextRun]_vars

-----------------------------------------------------------------------------
(* SimpleLogAnalyzer (simple_log_analyzer.py)                              *)

\* \d{1,3}: greedy, three digits tried first
Digits1to3 ==
    Alt(<< <<One(Digits), One(Digits), One(Digits)>>,
           <<One(Digits), One(Digits)>>,
           <<One(Digits)>> >>)

\* \w for the characters of the lines
WordChars == Digits \cup UpperLetters \cup LowerLetters \cup {"_"}

\* r'\d{1,3}\.\d{1,3}\.\d{1,3}\.\d{1,3}', the whole match marked as group 1
ip_pattern ==
    <<Mark, Digits1to3, Lit("."), Digits1to3, Lit("."), Digits1to3, Lit("."),
      Digits1to3, Mark>>

\* r'\[(\d{2}/\w{3}/\d{4}:\d{2}:\d{2}:\d{2})'
date_pattern ==
    <<Lit("["), Mark, One(Digits), One(Digits), Lit("/"),
      One(WordChars), One(WordChars), One(WordChars), Lit("/"),
      One(Digits), One(Digits), One(Digits), One(Digits), Lit(":"),
      One(Digits), One(Digits), Lit(":"), One(Digits), One(Digits), Lit(":"),
      One(Digits), One(Digits), Mark>>

\* r'"\s(\d{3})\s'
status_pattern ==
    <<Lit("\""), One(ReSpace), Mark, One(Digits), One(Digits), One(Digits), Mark,
      One(ReSpace)>>

\* read_log_file: every line of the file, stripped, is appended to the
\* entries loaded before; a missing file is reported
read_log_file(entries, filename, lines, found) ==
    IF found
    THEN LET loaded == entries \o [k \in DOMAIN lines |-> Strip(lines[k])]
         IN  [Printed(<<"Successfully read " \o IntToStr(Len(loaded)) \o " log entries">>)
                 EXCEPT !.value = Some(loaded)]
    ELSE [Printed(<<"Error: File '" \o filename \o "' not found!">>)
             EXCEPT !.value = Some(entries)]

\* group 1 of the first match of the pattern in each entry that has one
Matched(entries, pattern) ==
    LET hits == SelectSeq(entries, LAMBDA entry : ReSearch(pattern, entry).ok)
    IN  [k \in DOMAIN hits |-> Group(hits[k], ReSearch(pattern, hits[k]), 1)]

count_ips(entries) == Return(Counter(Matched(entries, ip_pattern)))

count_status_codes(entries) == Return(Counter(Matched(entries, status_pattern)))

\* text.split(':')[0]
RECURSIVE SplitColonFirst(_)
SplitColonFirst(text) ==
    IF text = "" \/ Ch(text, 1) = ":" THEN ""
    ELSE Ch(text, 1) \o SplitColonFirst(SubSeq(text, 2, Len(text)))

\* get_requests_by_hour: hour = date_match.group(1).split(':')[0]
get_requests_by_hour(entries) ==
    LET dates == Matched(entries, date_pattern)
    IN  Return(Counter([k \in DOMAIN dates |-> SplitColonFirst(dates[k])]))

print_summary(entries) ==
    LET ips == most_common(count_ips(entries).value, 5)
        all == count_status_codes(entries).value
        statuses == most_common(all, Len(all))
        hours == sorted(get_requests_by_hour(entries).value)
    IN  Printed(<<"\nLog Analysis Summary", "------------------------------",
                  "\nTop 5 IP Addresses:">>
                \o RequestLines(ips)
                \o <<"\nStatus Code Distribution:">>
                \o [i \in DOMAIN statuses |->
                       "Status " \o statuses[i][1] \o ": "
                           \o IntToStr(statuses[i][2]) \o " occurrences"]
                \o <<"\nRequests by Hour:">>
                \o [i \in DOMAIN hours |->
                       "Hour " \o hours[i][1] \o ": "
                           \o IntToStr(hours[i][2]) \o " requests"])

MaxSimpleLines == 2

\* the same hour on the day after LineBasic
LineNextDay ==
    "10.0.0.2 - - [20/Apr/2023:13:05:00 +0000] \"GET /about.html HTTP/1.1\" 301 17\n"

\* another hour on the day of LineBasic
LineNextHour ==
    "10.0.0.300 - - [19/Apr/2023:14:00:01 +0000] \"GET /index.html HTTP/1.1\" 200 2326\n"

SimpleLines == {LineBasic, LineNextDay, LineNextHour, LineCombined, LineGarbage}

\* analyzer = SimpleLogAnalyzer(), and the file the user will name
InitSimple ==
    /\ pc = "menu"
    /\ file \in BoundedSeq(SimpleLines, MaxSimpleLines)
    /\ line_num = 0
    /\ log_entries = <<>>
    /\ stdout = <<>>
    /\ analyzer = <<>>
    /\ last_op = NoOp
    /\ result = Return(None)
    /\ tok = <<>>
    /\ log_line = ""
    /\ ret = Return(None)

\* analyzer.<op>(*args), r what it returns and prints, entries the list
\* self.log_entries after it
SimpleCall(op, args, r, entries) ==
    /\ pc = "menu"
    /\ last_op' = [op |-> op, args |-> args]
    /\ result' = r
    /\ log_entries' = entries
    /\ UNCHANGED <<pc, tok, log_line, ret, file, line_num, stdout, analyzer>>

\* choice 1: the file named exists or not; loading again appends again
ReadLogFile ==
    \E found \in BOOLEAN :
        /\ found => Len(log_entries) + Len(file) <= 2 * MaxSimpleLines
        /\ LET name == IF found THEN FileName ELSE "missing.log"
               r == read_log_file(log_entries, name, file, found)
           IN  SimpleCall("read_log_file", <<name>>, [r EXCEPT !.value = None],
                          r.value[1])

CountIps == SimpleCall("count_ips", <<>>, count_ips(log_entries), log_entries)

CountStatusCodes ==
    SimpleCall("count_status_codes", <<>>, count_status_codes(log_entries), log_entries)

GetRequestsByHour ==
    SimpleCall("get_requests_by_hour", <<>>, get_requests_by_hour(log_entries),
               log_entries)

\* choice 2
PrintSummary ==
    IF log_entries = <<>>
    THEN SimpleCall("main", <<"2">>,
                    Printed(<<"No log entries loaded! Please load a log file first.">>),
                    log_entries)
    ELSE SimpleCall("print_summary", <<>>, print_summary(log_entries), log_entries)

NextSimple ==
    \/ ReadLogFile
    \/ CountIps
    \/ CountStatusCodes
    \/ GetRequestsByHour
    \/ PrintSummary

SpecSimple == InitSimple /\ [][NextSimple]_vars

-----------------------------------------------------------------------------
(* Ingestion of requests around midnight, then apply_filters (SpecDates)   *)

MaxDateLines == 2

\* a line of the basic grammar stamped with the date and time
StampedLine(stamp) ==
    "10.0.0.9 - - [" \o stamp \o " +0000] \"GET /index.html HTTP/1.1\" 200 10\n"

\* requests at the last second of a day, at the midnight that begins the
\* next, during that day, at the midnight that ends it and one second later
DateLines ==
    {StampedLine("18/Apr/2023:23:59:59"), StampedLine("19/Apr/2023:00:00:00"),
     LineBasic, LineCombined, StampedLine("20/Apr/2023:00:00:01")}

InitDates ==
    /\ pc = "start"
    /\ file \in BoundedSeq(DateLines, MaxDateLines)
    /\ line_num = 0
    /\ log_entries = <<>>
    /\ stdout = <<>>
    /\ analyzer = <<>>
    /\ last_op = NoOp
    /\ result = Return(None)
    /\ tok = <<>>
    /\ log_line = ""
    /\ ret = Return(None)

NextDates ==
    \/ LoadStart
    \/ ReadLine
    \/ LoadFinish
    \/ ApplyFilters

SpecDates == InitDates /\ [][NextDates]_vars

-----------------------------------------------------------------------------
(* Properties of one call of parse_log_line (SpecParse)                    *)

\* a quoted token as the record holds it: the placeholder "-" is absent
OptTok(t) == IF t = "-" THEN None ELSE Some(t)

MatchesBoth(l) ==
    ReMatch(COMBINED_LOG_PATTERN, l).ok /\ ReMatch(COMMON_LOG_PATTERN, l).ok

\* C1: a line that matches both grammars is read by the extended grammar:
\* it was written with the two trailing quoted fields, and the record
\* returned takes referer and user agent from them; it is refused only for
\* its timestamp.
C1_ExtendedPrecedence ==
    (pc = "returned" /\ MatchesBoth(log_line)) =>
        /\ tok.tail.kind = "quoted"
        /\ ret.value = None => tok.ts.val = None
        /\ ret.value # None =>
              /\ ret.value[1].referer = OptTok(tok.tail.referer)
              /\ ret.value[1].user_agent = OptTok(tok.tail.user_agent)

C1_Witness ==
    /\ pc = "returned"
    /\ MatchesBoth(log_line)
    /\ ret.value # None
    /\ ret.value[1].referer = Some("http://example.com/")
    /\ ret.value[1].user_agent = Some("Mozilla/5.0 (X11)")

\* the tokens are those of a line of one of the grammars
WellFormed(t) ==
    /\ t.ip \in {"192.168.1.1", "10.0.0.300"}
    /\ t.method \in {"GET", "BREW"}
    /\ t.status.val # None
    /\ t.size.val # None

\* the record the tokens stand for
RecordOf(t, line) ==
    LogEntry(line, t.ts.val[1], t.ip, t.method, t.path,
             t.status.val[1], t.size.val[1],
             IF t.tail.kind = "quoted" THEN OptTok(t.tail.user_agent) ELSE None,
             IF t.tail.kind = "quoted" THEN OptTok(t.tail.referer) ELSE None)

ExampleLine ==
    "192.168.1.1 - - [19/Apr/2023:13:55:36 +0000] \"GET /index.html HTTP/1.1\" 200 2326"

ExampleRecord ==
    LogEntry(ExampleLine, datetime(2023, 4, 19, 13, 55, 36), "192.168.1.1",
             "GET", "/index.html", 200, 2326, None, None)

\* C2: a line of a grammar with a valid timestamp yields the record of its
\* tokens, with the line itself as raw_log; referer and user agent are
\* absent for a basic line and for the placeholder "-", verbatim otherwise.
\* The example line of the basic grammar yields the example record.
C2_FieldsEqualTokens ==
    pc = "returned" =>
        /\ (WellFormed(tok) /\ tok.ts.val # None) =>
               ret = Return(Some(RecordOf(tok, log_line)))
        /\ ret.value # None =>
               /\ ret.value[1].raw_log = log_line
               /\ GrammarOf(log_line) # "none"
               /\ (GrammarOf(log_line) = "common") =>
                      (ret.value[1].referer = None /\ ret.value[1].user_agent = None)
        /\ log_line = ExampleLine => ret = Return(Some(ExampleRecord))

C2_Witness ==
    /\ pc = "returned"
    /\ WellFormed(tok)
    /\ tok.tail.kind = "quoted"
    /\ tok.tail.referer = "-"
    /\ tok.tail.user_agent = "curl/8"
    /\ ret.value # None
    /\ ret.value[1].referer = None
    /\ ret.value[1].user_agent = Some("curl/8")

\* C4: every record has a natural status code and response size and a valid
\* timestamp, and a line whose status or size token is not a number is
\* refused as a whole.
C4_NonNumericRejected ==
    pc = "returned" =>
        /\ ret.value # None =>
              /\ ret.value[1].status_code \in Nat
              /\ ret.value[1].response_size \in Nat
              /\ ValidDatetime(ret.value[1].timestamp)
        /\ (tok.status.val = None \/ tok.size.val = None) => ret.value = None

\* C5: parse_log_line always returns, a record or None, and never raises.
C5_ParseTotal ==
    pc = "returned" =>
        /\ ret.exc = "none"
        /\ ret.value = None \/ ret.value[1].raw_log = log_line

C5_Witness ==
    /\ pc = "returned"
    /\ GrammarOf(log_line) = "combined"
    /\ parse_timestamp(Group(log_line, ReMatch(COMBINED_LOG_PATTERN, log_line), 2)).exc
           = "ValueError"
    /\ ret.exc = "none"
    /\ ret.value = None

\* offsets a server writes after the date and time
OffsetInputs == {"+0000", "+0530", "-0800", "+1400"}

\* the tokens with the offset of the timestamp token replaced
WithOffset(t, off) == [t EXCEPT !.ts.tok = SplitFirst(t.ts.tok) \o " " \o off]

\* C23: the offset of a timestamp token is dropped, not applied: the record
\* holds the date and time as printed, and the line written with any other
\* offset gives a record with the same timestamp.
C23_OffsetDiscarded ==
    (pc = "returned" /\ tok.ts.kind = "ok") =>
        /\ parse_timestamp(tok.ts.tok) = Return(tok.ts.val)
        /\ ret.value # None => ret.value[1].timestamp = tok.ts.val[1]
        /\ \A off \in OffsetInputs :
              LET other == parse_log_line(WriteLine(WithOffset(tok, off)))
              IN  /\ parse_timestamp(WithOffset(tok, off).ts.tok)
                        = parse_timestamp(tok.ts.tok)
                  /\ (other.value = None) <=> (ret.value = None)
                  /\ ret.value # None =>
                        other.value[1].timestamp = ret.value[1].timestamp

C23_Witness ==
    /\ pc = "returned"
    /\ tok.ts.tok = "29/Feb/2024:00:00:00 +0530"
    /\ ret.value # None
    /\ ret.value[1].timestamp = datetime(2024, 2, 29, 0, 0, 0)
    /\ parse_log_line(WriteLine(WithOffset(tok, "-0800"))).value[1].timestamp
          = datetime(2024, 2, 29, 0, 0, 0)

\* the text is DD/Mon/YYYY:HH:MM:SS: two digits, a month abbreviation, four
\* digits and three times two digits, with the separators of the layout
ExactLayout(s) ==
    /\ Len(s) = 20
    /\ \A i \in {1, 2, 8, 9, 10, 11, 13, 14, 16, 17, 19, 20} : Ch(s, i) \in Digits
    /\ Ch(s, 3) = "/" /\ Ch(s, 7) = "/"
    /\ \A i \in {12, 15, 18} : Ch(s, i) = ":"
    /\ \E k \in 1..12 : MonthAbbr[k] = Lower(SubSeq(s, 4, 6))

\* C24: parse_timestamp fails for every token whose date and time deviate
\* from DD/Mon/YYYY:HH:MM:SS (field widths, non-numeric fields, month
\* abbreviation); the line holding such a token gives no record.
C24_OnlyExactLayout ==
    (pc = "returned" /\ ~ExactLayout(SplitFirst(tok.ts.tok))) =>
        /\ parse_timestamp(tok.ts.tok).exc = "ValueError"
        /\ ret.value = None

\* the month abbreviations strftime writes for %b
MonthName == <<"Jan", "Feb", "Mar", "Apr", "May", "Jun",
               "Jul", "Aug", "Sep", "Oct", "Nov", "Dec">>

\* log_date.strftime("%d/%b/%Y:%H:%M:%S"), the layout the grammars read; the
\* year is written with four digits (what strftime does for the years from
\* 1000 on, the only ones among the inputs)
strftime_log(t) ==
    ZeroPad(IntToStr(t.day), 2) \o "/" \o MonthName[t.month] \o "/"
        \o ZeroPad(IntToStr(t.year), 4) \o ":" \o ZeroPad(IntToStr(t.hour), 2)
        \o ":" \o ZeroPad(IntToStr(t.minute), 2) \o ":" \o ZeroPad(IntToStr(t.second), 2)

\* an absent quoted field is written as the placeholder
OrDash(opt) == IF opt = None THEN "-" ELSE opt[1]

\* the line of the extended grammar written from the fields of a record:
\* f'{ip} - - [{date_str} +0000] "{method} {path} HTTP/1.1" {status} {size}
\* "{referer}" "{user_agent}"'
log_entry_line(entry) ==
    entry.ip_address \o " - - [" \o strftime_log(entry.timestamp) \o " +0000] \""
        \o entry.method \o " " \o entry.path \o " HTTP/1.1\" "
        \o IntToStr(entry.status_code) \o " " \o IntToStr(entry.response_size)
        \o " \"" \o OrDash(entry.referer) \o "\" \"" \o OrDash(entry.user_agent) \o "\""

\* the records agree on every field but the raw line
SameFields(a, b) == [a EXCEPT !.raw_log = ""] = [b EXCEPT !.raw_log = ""]

\* C25: the record of a line of the extended grammar, written again as a
\* line of the extended grammar (absent referer and user agent as '-') and
\* parsed again, gives a record with the same fields.
C25_RoundTrip ==
    (pc = "returned" /\ GrammarOf(log_line) = "combined" /\ ret.value # None) =>
        LET again == parse_log_line(log_entry_line(ret.value[1]))
        IN  /\ GrammarOf(log_entry_line(ret.value[1])) = "combined"
            /\ again.value # None
            /\ SameFields(again.value[1], ret.value[1])

\* a line that is not written back byte for byte: one-digit day and hour,
\* status 007, a path with a space
C25_Witness ==
    /\ pc = "returned"
    /\ tok.ts.kind = "width"
    /\ tok.status.tok = "007"
    /\ tok.path = "/search?q=a b"
    /\ tok.tail.referer = "-" /\ tok.tail.user_agent = "curl/8"
    /\ ret.value # None
    /\ log_entry_line(ret.value[1])
          = tok.ip \o " - - [05/Apr/2023:03:07:09 +0000] \"" \o tok.method
               \o " /search?q=a b HTTP/1.1\" 7 " \o tok.size.tok \o " \"-\" \"curl/8\""
    /\ SameFields(parse_log_line(log_entry_line(ret.value[1])).value[1], ret.value[1])

\* the line up to its size token
BasicPart(t) == WriteLine([t EXCEPT !.tail = TailTok("none", "", "", "")])

\* C29: a line is read when a prefix of it matches a grammar, the rest
\* being ignored: if the line up to the size token gives a record, the
\* whole line gives a record with the same fields; with a tail that is not
\* two quoted fields (only a referer, other text) it is a basic record
\* without referer and user agent.
C29_PrefixAccepted ==
    (pc = "returned" /\ parse_log_line(BasicPart(tok)).value # None) =>
        LET basic == parse_log_line(BasicPart(tok)).value[1]
        IN  /\ ReMatch(COMMON_LOG_PATTERN, log_line).ok
            /\ ReMatch(COMMON_LOG_PATTERN, log_line).end <= Len(BasicPart(tok)) + 1
            /\ ret.value # None
            /\ tok.tail.kind # "quoted" =>
                  /\ GrammarOf(log_line) = "common"
                  /\ SameFields(ret.value[1], basic)
                  /\ ret.value[1].referer = None
                  /\ ret.value[1].user_agent = None
            /\ tok.tail.kind = "quoted" =>
                  SameFields([ret.value[1] EXCEPT !.referer = None, !.user_agent = None],
                             basic)

\* a line with only a referer after the size
C29_Witness ==
    /\ pc = "returned"
    /\ tok.tail.text = " \"http://example.com/\""
    /\ tok.size.tok = "2326"
    /\ ret.value # None
    /\ ret.value[1].response_size = 2326
    /\ ret.value[1].referer = None
    /\ ret.value[1].user_agent = None
    /\ ret.value[1].raw_log = BasicPart(tok) \o " \"http://example.com/\""

-----------------------------------------------------------------------------
(* Properties of ingestion and of the filters (Spec)                       *)

Range(f) == {f[k] : k \in DOMAIN f}

\* what the three lines of the grammars stand for
RecCombined ==
    LogEntry("10.0.0.2 - - [20/Apr/2023:00:00:00 +0000] \"POST /admin/login.php HTTP/1.1\" 404 512 \"-\" \"Mozilla/5.0\"",
             datetime(2023, 4, 20, 0, 0, 0), "10.0.0.2", "POST",
             "/admin/login.php", 404, 512, Some("Mozilla/5.0"), None)

RecIndented ==
    LogEntry("192.168.1.1 - - [19/Apr/2023:13:55:36 +0530] \"GET /api/data HTTP/1.1\" 500 0 \"http://example.com/\" \"curl/8\"",
             datetime(2023, 4, 19, 13, 55, 36), "192.168.1.1", "GET",
             "/api/data", 500, 0, Some("curl/8"), Some("http://example.com/"))

GoodLines == {LineBasic, LineCombined, LineIndented}

ExpectedRecord(raw) ==
    CASE raw = LineBasic    -> ExampleRecord
      [] raw = LineCombined -> RecCombined
      [] raw = LineIndented -> RecIndented

BadTimestampLines == {LineBadMonth, LineBadDigits}

RejectedLines == {LineBadMonth, LineBadDigits, LineGarbage}

\* the first 50 characters of a rejected line, without surrounding blanks
Shown(raw) ==
    CASE raw = LineBadMonth  -> "10.0.0.2 - - [19/Xyz/2023:13:55:36 +0000] \"GET /in"
      [] raw = LineBadDigits -> "10.0.0.2 - - [ab/Apr/2023:13:55:36 +0000] \"GET /in"
      [] raw = LineGarbage   -> "# rotated"

ExpectedWarning(k, raw) ==
    "Warning: Could not parse line " \o Ch("123456789", k) \o ": "
        \o Shown(raw) \o "..."

Warnings(out) == SelectSeq(out, LAMBDA l : Prefix(l, 8) = "Warning:")

\* the numbers of the lines read so far that are in set S, ascending
LinesIn(S) == SelectSeq([k \in 1..line_num |-> k], LAMBDA k : file[k] \in S)

\* C3: a line of a grammar whose timestamp is invalid is rejected: the
\* parse yields None, no record of the store comes from it, every record
\* has a valid timestamp, and a warning names the line.
C3_BadTimestampRejected ==
    /\ \A k \in 1..line_num :
          file[k] \in BadTimestampLines =>
              /\ \A j \in DOMAIN log_entries : log_entries[j].raw_log # Strip(file[k])
              /\ ExpectedWarning(k, file[k]) \in Range(stdout)
              /\ (k = line_num /\ pc = "parsing") => ret.value = None
    /\ \A j \in DOMAIN log_entries : ValidDatetime(log_entries[j].timestamp)

C3_Witness ==
    /\ pc = "loaded"
    /\ file = <<LineBadMonth, LineBasic, LineBadDigits>>
    /\ log_entries = <<ExampleRecord>>

\* C6: the store holds one record per accepted line, in the order of the
\* lines in the file.
C6_StoreInInputOrder ==
    LET idx == LinesIn(GoodLines)
    IN  /\ Len(log_entries) = Len(idx)
        /\ \A j \in DOMAIN log_entries : log_entries[j] = ExpectedRecord(file[idx[j]])
        /\ pc = "loaded" => line_num = Len(file)

C6_Witness ==
    /\ pc = "loaded"
    /\ file = <<LineCombined, LineBadMonth, LineBasic>>
    /\ log_entries = <<RecCombined, ExampleRecord>>

\* C7: every non-blank line read is either a record or a warning with its
\* 1-based line number and its first 50 characters; a rejected line does
\* not end the run; a file without non-blank lines gives an empty store.
C7_EveryLineAccounted ==
    LET rej == LinesIn(RejectedLines)
        w   == Warnings(stdout)
    IN  /\ pc # "exited"
        /\ Len(log_entries) + Len(w)
             = Cardinality({k \in 1..line_num : file[k] # LineBlank})
        /\ Len(w) = Len(rej)
        /\ \A j \in DOMAIN w : w[j] = ExpectedWarning(rej[j], file[rej[j]])
        /\ pc = "loaded" => line_num = Len(file)
        /\ (pc = "loaded" /\ Range(file) \subseteq {LineBlank}) =>
               (log_entries = <<>> /\ w = <<>>)

C7_Witness ==
    /\ pc = "loaded"
    /\ file = <<LineBlank, LineBadMonth, LineBasic>>
    /\ Warnings(stdout)
         = <<"Warning: Could not parse line 2: 10.0.0.2 - - [19/Xyz/2023:13:55:36 +0000] \"GET /in...">>
    /\ log_entries = <<ExampleRecord>>

RECURSIVE IsSubseq(_, _)
IsSubseq(a, b) ==
    IF a = <<>> THEN TRUE
    ELSE IF b = <<>> THEN FALSE
    ELSE IF Head(a) = Head(b) THEN IsSubseq(Tail(a), Tail(b))
    ELSE IsSubseq(a, Tail(b))

Count(seq, x) == Cardinality({k \in DOMAIN seq : seq[k] = x})

Contains(s, sub) ==
    \E i \in 1..(Len(s) - Len(sub) + 1) : SubSeq(s, i, i + Len(sub) - 1) = sub

UpperOfArg == [get |-> "GET", POST |-> "POST", Put |-> "PUT"]

\* whether a record satisfies the predicate of the filter last called
Satisfies(e) ==
    LET a == last_op.args
    IN  CASE last_op.op = "filter_by_ip" -> e.ip_address = a[1]
          [] last_op.op = "filter_by_method" -> e.method = UpperOfArg[a[1]]
          [] last_op.op = "filter_by_status_code" -> e.status_code = a[1]
          [] last_op.op = "filter_by_status_code_range" ->
                 e.status_code >= a[1] /\ e.status_code <= a[2]
          [] last_op.op = "filter_by_path_pattern" ->
                 (CASE a[1] = "admin"   -> Contains(e.path, "admin")
                    [] a[1] = "^/api"   -> Prefix(e.path, 4) = "/api"
                    [] a[1] = "\\.php$" ->
                           Len(e.path) >= 4
                           /\ SubSeq(e.path, Len(e.path) - 3, Len(e.path)) = ".php")
          [] last_op.op = "filter_by_date_range" ->
                 DtLE(a[1], e.timestamp) /\ DtLE(e.timestamp, a[2])

FilterOps ==
    {"filter_by_ip", "filter_by_method", "filter_by_status_code",
     "filter_by_status_code_range", "filter_by_path_pattern",
     "filter_by_date_range"}

\* C8: a filter returns the records of its store that satisfy its
\* predicate, each as often as in the store, in the order of the store.
C8_FilterExactSubsequence ==
    (pc = "loaded" /\ last_op.op \in FilterOps /\ result.exc = "none") =>
        /\ IsSubseq(result.value, analyzer)
        /\ \A e \in Range(analyzer) :
              Count(result.value, e)
                 = (IF Satisfies(e) THEN Count(analyzer, e) ELSE 0)

C8_Witness ==
    /\ pc = "loaded"
    /\ last_op = [op |-> "filter_by_method", args |-> <<"get">>]
    /\ analyzer = <<RecIndented, RecCombined, ExampleRecord>>
    /\ result.value = <<RecIndented, ExampleRecord>>

\* C10: the range filters keep exactly the records whose value lies
\* between the bounds, the bounds included.
C10_RangeInclusive ==
    /\ (pc = "loaded" /\ last_op.op = "filter_by_status_code_range") =>
          \A e \in Range(analyzer) :
              (e \in Range(result.value))
                 <=> (last_op.args[1] <= e.status_code
                      /\ e.status_code <= last_op.args[2])
    /\ (pc = "loaded" /\ last_op.op = "filter_by_date_range") =>
          \A e \in Range(analyzer) :
              (e \in Range(result.value))
                 <=> (DtLE(last_op.args[1], e.timestamp)
                      /\ DtLE(e.timestamp, last_op.args[2]))

C10_Witness ==
    /\ pc = "loaded"
    /\ last_op = [op |-> "filter_by_status_code_range", args |-> <<200, 404>>]
    /\ analyzer = <<ExampleRecord, RecIndented, RecCombined>>
    /\ result.value = <<ExampleRecord, RecCombined>>

\* the store obtained by ingesting the whole file: the records of its
\* well-formed lines, in the order of the lines
FreshStore ==
    LET idx == SelectSeq([k \in DOMAIN file |-> k], LAMBDA k : file[k] \in GoodLines)
    IN  [j \in DOMAIN idx |-> ExpectedRecord(file[idx[j]])]

\* what the operation last called returns when it is the first one run on
\* the freshly ingested store
FirstRunResult ==
    LET a == last_op.args
        o == last_op.op
    IN  CASE o = "filter_by_date_range" -> filter_by_date_range(FreshStore, a[1], a[2])
          [] o = "filter_by_ip" -> filter_by_ip(FreshStore, a[1])
          [] o = "filter_by_method" -> filter_by_method(FreshStore, a[1])
          [] o = "filter_by_status_code" -> filter_by_status_code(FreshStore, a[1])
          [] o = "filter_by_status_code_range" ->
                 filter_by_status_code_range(FreshStore, a[1], a[2])
          [] o = "filter_by_path_pattern" -> filter_by_path_pattern(FreshStore, a[1])
          [] o = "get_top_ips" -> get_top_ips(FreshStore, a[1])
          [] o = "get_top_paths" -> get_top_paths(FreshStore, a[1])
          [] o = "get_status_code_distribution" -> get_status_code_distribution(FreshStore)
          [] o = "get_method_distribution" -> get_method_distribution(FreshStore)
          [] o = "get_hourly_distribution" -> get_hourly_distribution(FreshStore)
          [] o = "get_daily_distribution" -> get_daily_distribution(FreshStore)
          [] o = "get_total_bandwidth" -> get_total_bandwidth(FreshStore)
          [] o = "get_average_response_size" -> get_average_response_size(FreshStore)
          [] o = "detect_potential_attacks" -> detect_potential_attacks(FreshStore)
          [] o = "generate_summary_report" -> generate_summary_report(FreshStore)

\* C9: after any sequence of filter, top-N, histogram, bandwidth,
\* anomaly-detection and summary operations the store of the analyzer is
\* the store as ingested, record for record and field for field, and the
\* operation last called has returned what it returns when run first on
\* the freshly ingested store.
C9_SourceStoreUnchanged ==
    pc = "loaded" =>
        /\ analyzer = FreshStore
        /\ log_entries = FreshStore
        /\ last_op # NoOp => result = FirstRunResult

C9_Witness ==
    /\ pc = "loaded"
    /\ last_op.op = "generate_summary_report"
    /\ analyzer = <<RecCombined, ExampleRecord, RecIndented>>
    /\ result.value.total_requests = 3
    /\ result.value.top_ips = << <<"192.168.1.1", 2>>, <<"10.0.0.2", 1>> >>

\* C11: a date-range filter called with start > end fails with a typed
\* error instead of returning an ordinary list.
C11_InvalidOrderingFails ==
    (pc = "loaded" /\ last_op.op = "filter_by_date_range"
        /\ ~DtLE(last_op.args[1], last_op.args[2]))
      => result.exc # "none"

\* the field get_top_ips and get_top_paths count
TopKey(e) == IF last_op.op = "get_top_ips" THEN e.ip_address ELSE e.path

\* the position in the store of the first record with the value v
FirstSeen(v) ==
    CHOOSE k \in DOMAIN analyzer :
        TopKey(analyzer[k]) = v /\ \A j \in 1..(k - 1) : TopKey(analyzer[j]) # v

\* C13: get_top_ips and get_top_paths return pairs (value, count) of
\* values of the store, no value twice, each count the exact number of
\* records with that value, ordered by count descending and, for equal
\* counts, by first appearance in the store.
C13_TopRanking ==
    (pc = "loaded" /\ last_op.op \in {"get_top_ips", "get_top_paths"}) =>
        LET top == result.value
        IN  /\ result.exc = "none"
            /\ \A i \in DOMAIN top :
                  /\ top[i][2] >= 1
                  /\ top[i][2] = Cardinality({k \in DOMAIN analyzer :
                                                TopKey(analyzer[k]) = top[i][1]})
            /\ \A i, j \in DOMAIN top :
                  i < j =>
                     /\ top[i][1] # top[j][1]
                     /\ \/ top[i][2] > top[j][2]
                        \/ /\ top[i][2] = top[j][2]
                           /\ FirstSeen(top[i][1]) < FirstSeen(top[j][1])

C13_Witness ==
    /\ pc = "loaded"
    /\ last_op = [op |-> "get_top_paths", args |-> <<5>>]
    /\ analyzer = <<ExampleRecord, RecCombined, RecIndented>>
    /\ result.value = << <<"/index.html", 1>>, <<"/admin/login.php", 1>>,
                         <<"/api/data", 1>> >>

\* the number of distinct values of the counted field in the store
DistinctKeys == Cardinality({TopKey(analyzer[k]) : k \in DOMAIN analyzer})

\* the whole ranking of the store: the limit at the number of records
FullRanking ==
    IF last_op.op = "get_top_ips" THEN get_top_ips(analyzer, Len(analyzer)).value
    ELSE get_top_paths(analyzer, Len(analyzer)).value

\* C14: with N = 0 the top-N list is empty; with N at least the number of
\* records it holds every distinct value once; in general it has
\* min(N, number of distinct values) entries and is a prefix of the whole
\* ranking.
C14_TopTruncation ==
    (pc = "loaded" /\ last_op.op \in {"get_top_ips", "get_top_paths"}) =>
        LET n == last_op.args[1]
            top == result.value
        IN  /\ n = 0 => top = <<>>
            /\ n >= Len(analyzer) =>
                  /\ {top[i][1] : i \in DOMAIN top}
                        = {TopKey(analyzer[k]) : k \in DOMAIN analyzer}
                  /\ Len(top) = DistinctKeys
            /\ Len(top) = (IF n <= DistinctKeys THEN n ELSE DistinctKeys)
            /\ top = SubSeq(FullRanking, 1, Len(top))

C14_Witness ==
    /\ pc = "loaded"
    /\ last_op = [op |-> "get_top_ips", args |-> <<1>>]
    /\ analyzer = <<RecCombined, ExampleRecord, RecIndented>>
    /\ result.value = << <<"192.168.1.1", 2>> >>

HourCount(h) == Cardinality({k \in DOMAIN analyzer : analyzer[k].timestamp.hour = h})

RECURSIVE SumCounts(_)
SumCounts(items) == IF items = <<>> THEN 0 ELSE Head(items)[2] + SumCounts(Tail(items))

\* C15: get_hourly_distribution returns the 24 keys 0..23, each with the
\* number of records of that hour of day, and the counts add up to the
\* number of records.
C15_HourlyComplete ==
    (pc = "loaded" /\ last_op.op = "get_hourly_distribution") =>
        LET dist == result.value
        IN  /\ Len(dist) = 24
            /\ \A i \in 1..24 : dist[i][1] = i - 1 /\ dist[i][2] = HourCount(i - 1)
            /\ SumCounts(dist) = Len(analyzer)

C15_Witness ==
    /\ pc = "loaded"
    /\ last_op.op = "get_hourly_distribution"
    /\ analyzer = <<RecCombined, ExampleRecord, RecIndented>>
    /\ result.value[1] = <<0, 1>>
    /\ result.value[14] = <<13, 2>>
    /\ result.value[24] = <<23, 0>>

\* what each aggregate returns for a store without records
NeutralValue(op) ==
    CASE op \in {"get_total_bandwidth", "get_average_response_size"} -> 0
      [] op \in {"get_top_ips", "get_top_paths", "get_status_code_distribution",
                 "get_method_distribution", "get_daily_distribution",
                 "detect_potential_attacks"} -> <<>>
      [] op = "generate_summary_report" -> [error |-> "No log entries to analyze"]

\* C17: on an empty store no aggregate fails: total bandwidth and average
\* response size are 0, the top-N lists and the status, method and daily
\* histograms are empty, and the summary is the no-data marker.
C17_EmptyStoreNeutral ==
    (pc = "loaded" /\ analyzer = <<>>
        /\ last_op.op \notin FilterOps \cup {"none", "get_hourly_distribution"}) =>
        /\ result.exc = "none"
        /\ result.value = NeutralValue(last_op.op)

C17_Witness ==
    /\ pc = "loaded"
    /\ file = <<LineGarbage, LineBlank, LineBadMonth>>
    /\ analyzer = <<>>
    /\ last_op.op = "get_average_response_size"
    /\ result.value = 0

-----------------------------------------------------------------------------
(* Properties of a run of the program (SpecRun)                            *)

InvalidPatternMessage == "Invalid regex pattern: unterminated character set at position 0"

\* 00:00:00 of the day a date option names, and of the day after it
Midnight ==
    [d \in {"2023-04-19", "2023-04-20"} |->
        IF d = "2023-04-19" THEN datetime(2023, 4, 19, 0, 0, 0)
        ELSE datetime(2023, 4, 20, 0, 0, 0)]
NextMidnight ==
    [d \in {"2023-04-19"} |-> datetime(2023, 4, 20, 0, 0, 0)]

\* whether the filters other than the path filter keep a record
KeptByOthers(a, e) ==
    /\ a.filter_ip \in {None, Some("")} \/ e.ip_address = a.filter_ip[1]
    /\ a.filter_method = None \/ e.method = "GET"
    /\ a.filter_status \in {None, Some(0)} \/ e.status_code = a.filter_status[1]
    /\ a.start_date = None \/ a.start_date[1] \notin DOMAIN Midnight
          \/ DtLE(Midnight[a.start_date[1]], e.timestamp)
    /\ a.end_date = None \/ a.end_date[1] \notin DOMAIN NextMidnight
          \/ DtLE(e.timestamp, NextMidnight[a.end_date[1]])

\* C12: a path filter given a pattern that does not compile raises the
\* pattern error and returns no list, whatever the store holds; the store
\* stays as ingested; and apply_filters given such a pattern reports it,
\* goes on, and leaves exactly the entries the other filters keep.
C12_InvalidPatternReported ==
    /\ filter_by_path_pattern(log_entries, "[").exc = "re.error"
    /\ filter_by_path_pattern(log_entries, "[").value = None
    /\ (last_op.op = "apply_filters" /\ last_op.args.filter_path = Some("[")) =>
          /\ pc = "filtered"
          /\ log_entries = FreshStore
          /\ InvalidPatternMessage \in Range(stdout)
          /\ analyzer = SelectSeq(log_entries, LAMBDA e : KeptByOthers(last_op.args, e))

C12_Witness ==
    /\ pc = "filtered"
    /\ last_op.args = Namespace(None, None, None, Some("["), Some("2023-04-20"), None)
    /\ log_entries = <<ExampleRecord, RecCombined>>
    /\ analyzer = <<RecCombined>>
    /\ stdout[Len(stdout)] = "Filtered by start date: 2023-04-20 (1 entries)"

\* the dates of the records of the model, ascending, as isoformat() writes them
ModelDates ==
    << [day |-> 19, text |-> "2023-04-19"], [day |-> 20, text |-> "2023-04-20"] >>

DayCount(store, d) == Cardinality({k \in DOMAIN store : store[k].timestamp.day = d.day})

C18_RunCompletes == pc # "crashed"

-----------------------------------------------------------------------------
(* Properties of attack detection (SpecAttack)                             *)

\* the entries detect_potential_attacks returned under an attack type
Category(attack_type) ==
    LET found == SelectSeq(result.value, LAMBDA item : item[1] = attack_type)
    IN  IF found = <<>> THEN <<>> ELSE found[1][2]

\* the word w, in any case, with white space before and after it
HasWord(p, w) ==
    \E i \in 2..(Len(p) - Len(w)) :
        /\ Ch(p, i - 1) \in ReSpace
        /\ Lower(SubSeq(p, i, i + Len(w) - 1)) = w
        /\ Ch(p, i + Len(w)) \in ReSpace

\* a path with a quote, 'or' or 'and' as a word, 'union', 'select' or
\* 'drop', or the comment marker
HasSqlToken(p) ==
    \/ Contains(p, "'") \/ Contains(p, "\"") \/ Contains(p, "--")
    \/ HasWord(p, "or") \/ HasWord(p, "and")
    \/ \E kw \in {"union", "select", "drop"} : Contains(Lower(p), kw)

\* C19: a record is listed under sql_injection exactly when its path holds
\* a quote, 'or' or 'and' as a whole word, 'union', 'select' or 'drop' in
\* any case, or '--'.
C19_SqlInjectionExact ==
    (pc = "loaded" /\ last_op.op = "detect_potential_attacks") =>
        \A k \in DOMAIN analyzer :
            (analyzer[k] \in Range(Category("sql_injection")))
               <=> HasSqlToken(analyzer[k].path)

\* C20: a record is listed under path_traversal exactly when its path
\* holds '../' or '..\' somewhere.
C20_PathTraversalExact ==
    (pc = "loaded" /\ last_op.op = "detect_potential_attacks") =>
        \A k \in DOMAIN analyzer :
            (analyzer[k] \in Range(Category("path_traversal")))
               <=> (Contains(analyzer[k].path, "../")
                       \/ Contains(analyzer[k].path, "..\\"))

C20_Witness ==
    /\ pc = "loaded"
    /\ last_op.op = "detect_potential_attacks"
    /\ Len(analyzer) = 2
    /\ analyzer[1].path = "/../../etc/passwd"
    /\ analyzer[2].path = "/a/..b"
    /\ Category("path_traversal") = <<analyzer[1]>>

-----------------------------------------------------------------------------
(* Properties of the 404 threshold (SpecBurst)                             *)

\* how many entries of the store are 404 responses to the address
Count404(ip) ==
    Cardinality({k \in DOMAIN analyzer : /\ analyzer[k].ip_address = ip
                                         /\ analyzer[k].status_code = 404})

\* C21: excessive_404s holds, once each, exactly the 404 records of the
\* addresses with more than 10 records of status 404: all of them, none of
\* their other records, no record of an address with 10 or fewer.
C21_Excessive404sExact ==
    (pc = "loaded" /\ last_op.op = "detect_potential_attacks") =>
        \A k \in DOMAIN analyzer :
            Count(Category("excessive_404s"), analyzer[k])
               = IF analyzer[k].status_code = 404
                    /\ Count404(analyzer[k].ip_address) > 10
                 THEN Count(analyzer, analyzer[k])
                 ELSE 0

\* 11 records of status 404 from one address give all 11, the 10 of the
\* other address and the 200 of the first give none
C21_Witness ==
    /\ pc = "loaded"
    /\ last_op.op = "detect_potential_attacks"
    /\ Len(analyzer) = 22
    /\ Count404(BurstIpA) = 11
    /\ Count404(BurstIpB) = 10
    /\ analyzer[1].status_code = 200
    /\ Len(Category("excessive_404s")) = 11
    /\ \A k \in 1..11 : /\ Category("excessive_404s")[k].ip_address = BurstIpA
                        /\ Category("excessive_404s")[k].path = "/p" \o IntToStr(k)

\* the entries of the store that are in the list, in the order of the store
InStoreOrder(list) == SelectSeq(analyzer, LAMBDA e : e \in Range(list))

\* C22: every category lists its records in the order of the store, also
\* when several addresses with interleaved records exceed the threshold,
\* and a record matching several rules is in each of their categories.
C22_CategoriesInStoreOrder ==
    (pc = "loaded" /\ last_op.op = "detect_potential_attacks") =>
        /\ \A c \in {"sql_injection", "path_traversal", "excessive_404s"} :
              Category(c) = InStoreOrder(Category(c))
        /\ \A k \in DOMAIN analyzer :
              /\ Contains(analyzer[k].path, "'")
                    => analyzer[k] \in Range(Category("sql_injection"))
              /\ Contains(analyzer[k].path, "../")
                    => analyzer[k] \in Range(Category("path_traversal"))

-----------------------------------------------------------------------------
(* Properties of the aggregates under reordering (SpecMerge)               *)

\* the store with its first entry moved to the end
Rotate(s) == IF s = <<>> THEN s ELSE Tail(s) \o <<Head(s)>>

\* the store with its first two entries exchanged
SwapFirst(s) == IF Len(s) < 2 THEN s ELSE <<s[2], s[1]>> \o SubSeq(s, 3, Len(s))

\* stores holding the same records in other orders; for three records,
\* every other order
Reorderings(s) ==
    {Rotate(s), SwapFirst(s), Rotate(Rotate(s)), Rotate(SwapFirst(s)),
     SwapFirst(Rotate(s))}

AggregateOps ==
    {"get_top_ips", "get_top_paths", "get_status_code_distribution",
     "get_method_distribution", "get_hourly_distribution", "get_daily_distribution",
     "get_total_bandwidth", "get_average_response_size", "detect_potential_attacks"}

\* what the method returns on a store
Apply(op, args, entries) ==
    CASE op = "get_top_ips" -> get_top_ips(entries, args[1]).value
      [] op = "get_top_paths" -> get_top_paths(entries, args[1]).value
      [] op = "get_status_code_distribution" -> get_status_code_distribution(entries).value
      [] op = "get_method_distribution" -> get_method_distribution(entries).value
      [] op = "get_hourly_distribution" -> get_hourly_distribution(entries).value
      [] op = "get_daily_distribution" -> get_daily_distribution(entries).value
      [] op = "get_total_bandwidth" -> get_total_bandwidth(entries).value
      [] op = "get_average_response_size" -> get_average_response_size(entries).value
      [] op = "detect_potential_attacks" -> detect_potential_attacks(entries).value

\* the counts of a list of (value, count) items
Counts(items) == [k \in DOMAIN items |-> items[k][2]]

\* the two results say the same, whatever the order of their lists
SameAggregate(op, args, a, b) ==
    CASE op \in {"get_top_ips", "get_top_paths"} ->
            /\ Counts(a) = Counts(b)
            /\ Len(a) < args[1] => Range(a) = Range(b)
      [] op \in {"get_total_bandwidth", "get_average_response_size"} -> a = b
      [] op = "detect_potential_attacks" ->
            /\ {item[1] : item \in Range(a)} = {item[1] : item \in Range(b)}
            /\ \A i \in DOMAIN a : \A j \in DOMAIN b :
                  a[i][1] = b[j][1] => Range(a[i][2]) = Range(b[j][2])
      [] OTHER -> Range(a) = Range(b)

\* the number of entries of the store with the value under the key of the
\* ranking
CountOf(op, v) ==
    Cardinality({k \in DOMAIN analyzer :
                    v = IF op = "get_top_ips" THEN analyzer[k].ip_address
                                              ELSE analyzer[k].path})

\* C26: what an aggregate says does not depend on the order of the store:
\* the histograms as mappings, the bandwidth, the counts reported by the
\* rankings and the records of each anomaly category are the same for the
\* same records in another order.
C26_OrderIndependent ==
    (pc = "loaded" /\ last_op.op \in AggregateOps) =>
        /\ \A s \in Reorderings(analyzer) :
              SameAggregate(last_op.op, last_op.args, result.value,
                            Apply(last_op.op, last_op.args, s))
        /\ last_op.op \in {"get_top_ips", "get_top_paths"} =>
              \A i \in DOMAIN result.value :
                  result.value[i][2] = CountOf(last_op.op, result.value[i][1])

\* two addresses with one request each before the other: the histogram of
\* status codes lists 404 first for one order and 200 first for the other,
\* and maps the same codes to the same counts
C26_Witness ==
    /\ pc = "loaded"
    /\ last_op.op = "get_status_code_distribution"
    /\ Len(analyzer) = 3
    /\ result.value = << <<404, 1>>, <<200, 2>> >>
    /\ get_status_code_distribution(Rotate(analyzer)).value = << <<200, 2>>, <<404, 1>> >>

AttackTypes == {"sql_injection", "path_traversal", "excessive_404s"}

\* the entry matches the rule of the attack type
MatchesRule(attack_type, entry) ==
    CASE attack_type = "sql_injection" -> ReSearch(sql_injection_pattern, entry.path).ok
      [] attack_type = "path_traversal" -> ReSearch(path_traversal_pattern, entry.path).ok
      [] attack_type = "excessive_404s" ->
            entry.status_code = 404 /\ Count404(entry.ip_address) > 10

\* the keys of a dict
Keys(items) == {item[1] : item \in Range(items)}

\* C28: the mapping of detect_potential_attacks holds an attack type
\* exactly when a record matches its rule, so no key maps to an empty list
\* and nothing matching gives the empty mapping; the summary of a store
\* that is not empty counts, for each type present, the length of its list,
\* at least 1.
C28_KeysOnlyWhenMatched ==
    /\ (pc = "loaded" /\ last_op.op = "detect_potential_attacks") =>
          /\ Keys(result.value) \subseteq AttackTypes
          /\ \A t \in AttackTypes :
                t \in Keys(result.value)
                   <=> \E k \in DOMAIN analyzer : MatchesRule(t, analyzer[k])
          /\ \A i \in DOMAIN result.value : result.value[i][2] # <<>>
    /\ (pc = "loaded" /\ last_op.op = "generate_summary_report" /\ analyzer # <<>>) =>
          LET counts == result.value.potential_attacks
              attacks == SelectSeq([t \in 1..3 |->
                            <<(<<"sql_injection", "path_traversal", "excessive_404s">>)[t],
                              SelectSeq(analyzer, LAMBDA e :
                                 MatchesRule((<<"sql_injection", "path_traversal",
                                                "excessive_404s">>)[t], e))>>],
                            LAMBDA item : item[2] # <<>>)
          IN  /\ Keys(counts) = Keys(attacks)
              /\ \A i \in DOMAIN counts :
                    /\ counts[i][2] >= 1
                    /\ \A j \in DOMAIN attacks :
                          attacks[j][1] = counts[i][1] =>
                             counts[i][2] = Len(attacks[j][2])

\* a store of 22 records: one with a quote and a parent directory in its
\* path, all 22 of them 404s of two addresses over the threshold
C28_Witness ==
    /\ pc = "loaded"
    /\ last_op.op = "generate_summary_report"
    /\ Len(analyzer) = 22
    /\ result.value.potential_attacks
          = << <<"sql_injection", 1>>, <<"path_traversal", 1>>, <<"excessive_404s", 22>> >>

-----------------------------------------------------------------------------
(* Properties of SimpleLogAnalyzer (SpecSimple)                            *)

\* the entry holds a bracketed timestamp DD/Mon/YYYY:HH:MM:SS
HasTimestamp(entry) == ReSearch(date_pattern, entry).ok

\* the hour field HH of the timestamp of the entry
HourField(entry) == SubSeq(Group(entry, ReSearch(date_pattern, entry), 1), 13, 14)

\* the count the result holds under the key, 0 without the key
CountUnder(items, key) ==
    LET found == SelectSeq(items, LAMBDA item : item[1] = key)
    IN  IF found = <<>> THEN 0 ELSE found[1][2]

\* C27: get_requests_by_hour counts by hour: its keys are the hour fields
\* of the entries with a timestamp, each with the number of such entries of
\* that hour, whatever their day.
C27_CountsByHour ==
    (pc = "menu" /\ last_op.op = "get_requests_by_hour") =>
        /\ \A k \in DOMAIN log_entries :
              HasTimestamp(log_entries[k]) =>
                 CountUnder(result.value, HourField(log_entries[k]))
                    = Cardinality({j \in DOMAIN log_entries :
                                      /\ HasTimestamp(log_entries[j])
                                      /\ HourField(log_entries[j])
                                            = HourField(log_entries[k])})
        /\ \A i \in DOMAIN result.value :
              \E k \in DOMAIN log_entries :
                  /\ HasTimestamp(log_entries[k])
                  /\ HourField(log_entries[k]) = result.value[i][1]

-----------------------------------------------------------------------------
(* Properties of the date options (SpecDates)                              *)

\* the command line holds no filter but date options that name a day (a
\* pattern that does not compile filters nothing)
OnlyDates(a) ==
    /\ ~Truthy(a.filter_ip, "") /\ ~Truthy(a.filter_method, "")
    /\ ~Truthy(a.filter_status, 0)
    /\ a.filter_path \in {None, Some("[")}
    /\ a.start_date = None \/ a.start_date[1] \in DOMAIN Midnight
    /\ a.end_date = None \/ a.end_date[1] \in DOMAIN NextMidnight

\* C30: the end-date filter for day D keeps exactly the records stamped at
\* or before 00:00:00 of the day after D, the start-date filter exactly
\* those stamped at or after 00:00:00 of the start date: the record of the
\* midnight that ends D is kept, every later one dropped.
C30_DateBounds ==
    (pc = "filtered" /\ last_op.op = "apply_filters" /\ OnlyDates(last_op.args)) =>
        /\ IsSubseq(analyzer, log_entries)
        /\ \A k \in DOMAIN log_entries :
              Count(analyzer, log_entries[k])
                 = IF /\ last_op.args.start_date # None
                            => DtLE(Midnight[last_op.args.start_date[1]],
                                    log_entries[k].timestamp)
                      /\ last_op.args.end_date # None
                            => DtLE(log_entries[k].timestamp,
                                    NextMidnight[last_op.args.end_date[1]])
                   THEN Count(log_entries, log_entries[k])
                   ELSE 0

\* --end-date 2023-04-19 on a record of 20 April 00:00:00 and one of
\* 00:00:01: the first is kept, the second dropped
C30_Witness ==
    /\ pc = "filtered"
    /\ last_op.args = Namespace(None, None, None, None, None, Some("2023-04-19"))
    /\ Len(log_entries) = 2
    /\ log_entries[1].timestamp = datetime(2023, 4, 20, 0, 0, 0)
    /\ log_entries[2].timestamp = datetime(2023, 4, 20, 0, 0, 1)
    /\ analyzer = <<log_entries[1]>>
    /\ stdout[Len(stdout)] = "Filtered by end date: 2023-04-19 (1 entries)"

====
